---- MODULE Spec2Model ----
(***************************************************************************)
(* EpochLens: the timestamp Converter (src/src/utils/converter.js) and the *)
(* shared constants (src/src/utils/constants.js).                          *)
(*                                                                         *)
(* A JavaScript string is a sequence of one-character strings.  A          *)
(* JavaScript number that the Converter handles is an integer below 2^53   *)
(* and is held exactly, as two limbs of base 10^6 (TLC's integers have 32  *)
(* bits, a millisecond timestamp has 13 digits).                           *)
(***************************************************************************)
EXTENDS Integers, Sequences, FiniteSets, TLC

VARIABLES
  arg,            \* the value handed to the Converter (a string or a number)
  text,           \* the text handed to findTimestamps / TIMESTAMP_REGEX.test
  now,            \* the clock: what new Date() reads, in ms since the epoch
  lastIndex,      \* TIMESTAMP_REGEX.lastIndex: the shared regex has the g flag
  ret,            \* the last call and what it returned
  firstScan,      \* history: what the first findTimestamps(text) returned
  settings,       \* the options object handed to convert and formatDate
  firstConvert,   \* history: what the first convert(arg, settings) returned,
                  \* and the lastIndex of TIMESTAMP_REGEX it was called at
  doc,            \* content.js: the text nodes under document.body, in order
  timestampCount, \* content.js: let timestampCount
  observer,       \* content.js: let observer, TRUE while one is connected
  records,        \* the mutation records queued for the observer's callback
  scanTimeout,    \* content.js: let scanTimeout, the timer and its closure
  scanned,        \* history: the added nodes the timer's handler has scanned
  badge,          \* the count of the last UPDATE_BADGE message sent
  pc,             \* content.js: "loading" until init() has run
  listening,      \* content.js: init() has registered its two listeners
  stored,         \* chrome.storage.sync: the settings object under its key
  events,         \* how many times the page or the user has acted since load
  calls           \* the updateSettings calls in progress: what each has read

callVars == <<arg, text, now, lastIndex, ret, firstScan, settings, firstConvert>>

pageVars ==
  <<doc, timestampCount, observer, records, scanTimeout, scanned, badge, pc,
    listening, stored, events, calls>>

vars == <<callVars, pageVars>>

----------------------------------------------------------------------------
(* Characters *)

DigitChars == <<"0", "1", "2", "3", "4", "5", "6", "7", "8", "9">>

Digit == {DigitChars[i] : i \in 1..10}

Letter ==
  {"a", "b", "c", "d", "e", "f", "g", "h", "i", "j", "k", "l", "m",
   "n", "o", "p", "q", "r", "s", "t", "u", "v", "w", "x", "y", "z",
   "A", "B", "C", "D", "E", "F", "G", "H", "I", "J", "K", "L", "M",
   "N", "O", "P", "Q", "R", "S", "T", "U", "V", "W", "X", "Y", "Z"}

\* \w of a regex without the u flag: ASCII letters, digits and underscore
WordChar == Letter \cup Digit \cup {"_"}

\* the white space String.prototype.trim and Number() strip (those used here)
WhiteSpace == {" ", "\t", "\n"}

DigitVal(c) == CHOOSE i \in 0..9 : DigitChars[i + 1] = c

\* the string of the decimal digits ds, e.g. Chars(<<1, 7>>) = "17"
Chars(ds) == [i \in 1..Len(ds) |-> DigitChars[ds[i] + 1]]

AllDigits(s) == \A i \in 1..Len(s) : s[i] \in Digit

----------------------------------------------------------------------------
(* Exact non-negative integers: hi * 10^6 + lo *)

Limb == 1000 * 1000

Big(h, l) == [hi |-> h, lo |-> l]

BigFromInt(n) == Big(n \div Limb, n % Limb)

BigLe(a, b) == a.hi < b.hi \/ (a.hi = b.hi /\ a.lo <= b.lo)

BigLt(a, b) == a.hi < b.hi \/ (a.hi = b.hi /\ a.lo < b.lo)

BigAdd(a, b) == Big(a.hi + b.hi + (a.lo + b.lo) \div Limb, (a.lo + b.lo) % Limb)

\* a - b for a >= b
BigSub(a, b) ==
  IF a.lo >= b.lo THEN Big(a.hi - b.hi, a.lo - b.lo)
  ELSE Big(a.hi - b.hi - 1, a.lo + Limb - b.lo)

\* a * k for 0 <= k <= 2000
BigMulSmall(a, k) == Big(a.hi * k + (a.lo * k) \div Limb, (a.lo * k) % Limb)

\* Math.floor(a / k) for 1 <= k <= 2000
BigDivSmall(a, k) == Big(a.hi \div k, ((a.hi % k) * Limb + a.lo) \div k)

\* a as a TLC integer, for a < 2^31
BigToInt(a) == a.hi * Limb + a.lo

RECURSIVE DigitsToBigFrom(_, _)
DigitsToBigFrom(ds, acc) ==
  IF ds = <<>> THEN acc
  ELSE DigitsToBigFrom(Tail(ds),
                       BigAdd(BigMulSmall(acc, 10), BigFromInt(DigitVal(Head(ds)))))

\* the value of a decimal numeral of at most 15 digits
DigitsToBig(ds) == DigitsToBigFrom(ds, Big(0, 0))

RECURSIVE IntToDigits(_)
IntToDigits(n) ==
  IF n < 10 THEN <<DigitChars[n + 1]>>
  ELSE Append(IntToDigits(n \div 10), DigitChars[(n % 10) + 1])

RECURSIVE PadStart(_, _)
PadStart(s, n) == IF Len(s) >= n THEN s ELSE PadStart(<<"0">> \o s, n)

\* the decimal numeral of a, without leading zeros
BigToDigits(a) ==
  IF a.hi = 0 THEN IntToDigits(a.lo)
  ELSE IntToDigits(a.hi) \o PadStart(IntToDigits(a.lo), 6)

----------------------------------------------------------------------------
(* JavaScript values: strings and numbers, and the conversions between them *)

StrVal(s) == [t |-> "string", s |-> s]

NumVal(n) == [t |-> "number", n |-> n]

NaN == [k |-> "nan"]

\* a finite number: sign, integer part (exact, below 10^15) and the digits
\* of its decimal fraction (no trailing zero)
Num(neg, mag, frac) == [k |-> "num", neg |-> neg, mag |-> mag, frac |-> frac]

\* a number of 10^15 or more in magnitude: its digits are not tracked
Huge(neg) == [k |-> "huge", neg |-> neg]

IntNum(mag) == Num(FALSE, mag, <<>>)

RECURSIVE TrimStart(_)
TrimStart(s) ==
  IF s # <<>> /\ Head(s) \in WhiteSpace THEN TrimStart(Tail(s)) ELSE s

RECURSIVE TrimEnd(_)
TrimEnd(s) ==
  IF s # <<>> /\ s[Len(s)] \in WhiteSpace THEN TrimEnd(SubSeq(s, 1, Len(s) - 1))
  ELSE s

\* String.prototype.trim
Trim(s) == TrimEnd(TrimStart(s))

RECURSIVE StripLeadingZeros(_)
StripLeadingZeros(ds) ==
  IF Len(ds) > 1 /\ Head(ds) = "0" THEN StripLeadingZeros(Tail(ds)) ELSE ds

RECURSIVE StripTrailingZeros(_)
StripTrailingZeros(ds) ==
  IF ds # <<>> /\ ds[Len(ds)] = "0"
  THEN StripTrailingZeros(SubSeq(ds, 1, Len(ds) - 1))
  ELSE ds

\* Number(s) of a string: white space stripped, "" is 0, then an optional
\* sign and a decimal literal; anything else is NaN.  (The literal forms with
\* an exponent, a 0x/0o/0b prefix or Infinity need one of the letters e, x,
\* o, b, I: the strings checked here hold none of them.)
StringToNumber(s) ==
  LET t      == Trim(s)
      signed == t # <<>> /\ t[1] \in {"+", "-"}
      u      == IF signed THEN Tail(t) ELSE t
      dots   == {i \in 1..Len(u) : u[i] = "."}
      p      == IF dots = {} THEN Len(u) + 1 ELSE CHOOSE i \in dots : TRUE
      ip     == SubSeq(u, 1, p - 1)
      fp     == SubSeq(u, p + 1, Len(u))
      neg    == signed /\ t[1] = "-"
  IN  IF t = <<>> THEN IntNum(Big(0, 0))
      ELSE IF Cardinality(dots) > 1 \/ ~AllDigits(ip) \/ ~AllDigits(fp)
              \/ (ip = <<>> /\ fp = <<>>)
      THEN NaN
      ELSE IF Len(StripLeadingZeros(ip)) > 15 THEN Huge(neg)
      ELSE Num(neg, DigitsToBig(ip), StripTrailingZeros(fp))

\* String(n) of a number below 10^15 in magnitude
NumberToString(n) ==
  IF n.k = "nan" THEN <<"N", "a", "N">>
  ELSE LET zero == n.mag = Big(0, 0) /\ n.frac = <<>>
       IN  (IF n.neg /\ ~zero THEN <<"-">> ELSE <<>>)
           \o BigToDigits(n.mag)
           \o (IF n.frac = <<>> THEN <<>> ELSE <<".">> \o n.frac)

\* Number(value)
JSNumber(v) == IF v.t = "number" THEN v.n ELSE StringToNumber(v.s)

\* String(value)
JSString(v) == IF v.t = "number" THEN NumberToString(v.n) ELSE v.s

\* num * 1000 (the fraction of num is empty wherever the model multiplies)
Times1000(num) ==
  IF num.k # "num" THEN num
  ELSE Num(num.neg, BigMulSmall(num.mag, 1000), num.frac)

----------------------------------------------------------------------------
(* constants.js *)

\* 946684800000: 2000-01-01T00:00:00Z
MIN_TIMESTAMP_MS == Big(946684, 800000)

\* 4102444800000: 2100-01-01T00:00:00Z
MAX_TIMESTAMP_MS == Big(4102444, 800000)

----------------------------------------------------------------------------
(* converter.js: validation and unit inference *)

\* /^\d{10}$|^\d{13}$/.test(str)
TestTenOrThirteenDigits(str) == AllDigits(str) /\ Len(str) \in {10, 13}

\* isValidTimestamp with the upper bound of the window taken as exclusive
isValidTimestamp_exclusiveMax(value) ==
  LET num == JSNumber(value)
      str == Trim(JSString(value))
      ms  == IF Len(str) = 10 THEN Times1000(num) ELSE num
  IN  IF num.k = "nan" THEN FALSE
      ELSE IF ~TestTenOrThirteenDigits(str) THEN FALSE
      ELSE BigLe(MIN_TIMESTAMP_MS, ms.mag) /\ BigLt(ms.mag, MAX_TIMESTAMP_MS)

\* isValidTimestamp that tests the digits with the regex object the other
\* calls use, g flag set: a match must start at the lastIndex left behind
isValidTimestamp_sharedRegex(value) ==
  LET num == JSNumber(value)
      str == Trim(JSString(value))
      ms  == IF Len(str) = 10 THEN Times1000(num) ELSE num
  IN  IF num.k = "nan" THEN FALSE
      ELSE IF ~(lastIndex = 0 /\ TestTenOrThirteenDigits(str)) THEN FALSE
      ELSE BigLe(MIN_TIMESTAMP_MS, ms.mag) /\ BigLe(ms.mag, MAX_TIMESTAMP_MS)

isValidTimestamp(value) ==
  LET num == JSNumber(value)
      str == Trim(JSString(value))
      ms  == IF Len(str) = 10 THEN Times1000(num) ELSE num
  IN  IF num.k = "nan" THEN FALSE
      ELSE IF ~TestTenOrThirteenDigits(str) THEN FALSE
      ELSE BigLe(MIN_TIMESTAMP_MS, ms.mag) /\ BigLe(ms.mag, MAX_TIMESTAMP_MS)

\* toMilliseconds that never scales seconds to milliseconds
toMilliseconds_unscaled(timestamp) == StringToNumber(Trim(JSString(timestamp)))

toMilliseconds(timestamp) ==
  LET str == Trim(JSString(timestamp))
      num == StringToNumber(str)
  IN  IF Len(str) = 10 THEN Times1000(num) ELSE num

Null == [k |-> "null"]

\* new Date(ms): a Date is its time value
NewDate(ms) == [k |-> "date", time |-> ms]

toDate(timestamp) ==
  IF ~isValidTimestamp(timestamp) THEN Null
  ELSE NewDate(toMilliseconds(timestamp).mag)

----------------------------------------------------------------------------
(* converter.js: formatting *)

\* an option of an options object, or the default of the destructuring
Opt(options, name, default) ==
  IF name \in DOMAIN options THEN options[name] ELSE default

\* the time zone identifiers Intl accepts; any other raises a RangeError
KnownTimeZones == {"UTC", "Asia/Tokyo", "Asia/Kolkata"}

\* the string of the model as a string of TLA+
RECURSIVE Text(_)
Text(s) == IF s = <<>> THEN "" ELSE Head(s) \o Text(Tail(s))

\* Date.prototype.toLocaleString: the platform's rendering of an instant,
\* which depends on the instant, the time zone and the field set only
toLocaleString(date, timeZone, fields) ==
  "toLocaleString(" \o Text(BigToDigits(date.time)) \o ", " \o timeZone
  \o ", " \o fields \o ")"

\* _formatRelative with the sign of the difference taken the wrong way round
_formatRelative_signSwapped(date) ==
  LET isPast  == BigLt(now, date.time)
      absDiff == IF BigLe(date.time, now) THEN BigSub(now, date.time)
                 ELSE BigSub(date.time, now)
      seconds == BigDivSmall(absDiff, 1000)
      minutes == BigToInt(BigDivSmall(seconds, 60))
      hours   == minutes \div 60
      days    == hours \div 24
      weeks   == days \div 7
      months  == days \div 30
      years   == days \div 365
      pick    == IF BigLt(seconds, BigFromInt(60)) THEN <<BigToInt(seconds), "second">>
                 ELSE IF minutes < 60 THEN <<minutes, "minute">>
                 ELSE IF hours < 24 THEN <<hours, "hour">>
                 ELSE IF days < 7 THEN <<days, "day">>
                 ELSE IF weeks < 4 THEN <<weeks, "week">>
                 ELSE IF months < 12 THEN <<months, "month">>
                 ELSE <<years, "year">>
      value   == pick[1]
      unit    == pick[2]
      plural  == IF value # 1 THEN "s" ELSE ""
  IN  IF isPast
      THEN IF value = 0 THEN "just now"
           ELSE ToString(value) \o " " \o unit \o plural \o " ago"
      ELSE "in " \o ToString(value) \o " " \o unit \o plural

_formatRelative(date) ==
  LET isPast  == BigLt(date.time, now)
      absDiff == IF BigLe(date.time, now) THEN BigSub(now, date.time)
                 ELSE BigSub(date.time, now)
      seconds == BigDivSmall(absDiff, 1000)
      minutes == BigToInt(BigDivSmall(seconds, 60))
      hours   == minutes \div 60
      days    == hours \div 24
      weeks   == days \div 7
      months  == days \div 30
      years   == days \div 365
      pick    == IF BigLt(seconds, BigFromInt(60)) THEN <<BigToInt(seconds), "second">>
                 ELSE IF minutes < 60 THEN <<minutes, "minute">>
                 ELSE IF hours < 24 THEN <<hours, "hour">>
                 ELSE IF days < 7 THEN <<days, "day">>
                 ELSE IF weeks < 4 THEN <<weeks, "week">>
                 ELSE IF months < 12 THEN <<months, "month">>
                 ELSE <<years, "year">>
      value   == pick[1]
      unit    == pick[2]
      plural  == IF value # 1 THEN "s" ELSE ""
  IN  IF isPast
      THEN IF value = 0 THEN "just now"
           ELSE ToString(value) \o " " \o unit \o plural \o " ago"
      ELSE "in " \o ToString(value) \o " " \o unit \o plural

\* the time zone the platform is set to: what 'local' resolves to
LocalTimeZone == "Asia/Kolkata"

\* the offset from UTC, in minutes, of the time zones Intl knows here (none of
\* them has daylight saving time)
TimeZoneOffsetMinutes(timeZone) ==
  CASE timeZone = "UTC"          -> 0
    [] timeZone = "Asia/Kolkata" -> 330
    [] timeZone = "Asia/Tokyo"   -> 540

\* what a throw statement or a failing platform call leaves: an exception
Throw(name) == [k |-> "throw", error |-> name]

\* the month names of Intl.DateTimeFormat('en-US', { month: 'long' })
MonthNames ==
  << <<"J", "a", "n", "u", "a", "r", "y">>,
     <<"F", "e", "b", "r", "u", "a", "r", "y">>,
     <<"M", "a", "r", "c", "h">>,
     <<"A", "p", "r", "i", "l">>,
     <<"M", "a", "y">>,
     <<"J", "u", "n", "e">>,
     <<"J", "u", "l", "y">>,
     <<"A", "u", "g", "u", "s", "t">>,
     <<"S", "e", "p", "t", "e", "m", "b", "e", "r">>,
     <<"O", "c", "t", "o", "b", "e", "r">>,
     <<"N", "o", "v", "e", "m", "b", "e", "r">>,
     <<"D", "e", "c", "e", "m", "b", "e", "r">> >>

\* the weekday names of Intl.DateTimeFormat('en-US', { weekday: 'long' }),
\* from Sunday
WeekdayNames ==
  << <<"S", "u", "n", "d", "a", "y">>,
     <<"M", "o", "n", "d", "a", "y">>,
     <<"T", "u", "e", "s", "d", "a", "y">>,
     <<"W", "e", "d", "n", "e", "s", "d", "a", "y">>,
     <<"T", "h", "u", "r", "s", "d", "a", "y">>,
     <<"F", "r", "i", "d", "a", "y">>,
     <<"S", "a", "t", "u", "r", "d", "a", "y">> >>

\* the civil date of day number z (days since 1970-01-01) in the proleptic
\* Gregorian calendar, as Intl.DateTimeFormat computes it
CivilFromDays(z) ==
  LET s   == z + 719468
      era == s \div 146097
      doe == s % 146097
      yoe == (doe - doe \div 1460 + doe \div 36524 - doe \div 146096) \div 365
      doy == doe - (365 * yoe + yoe \div 4 - yoe \div 100)
      mp  == (5 * doy + 2) \div 153
      d   == doy - (153 * mp + 2) \div 5 + 1
      m   == IF mp < 10 THEN mp + 3 ELSE mp - 9
      y   == yoe + era * 400 + (IF m <= 2 THEN 1 ELSE 0)
  IN  [year |-> y, month |-> m, day |-> d]

\* formatToParts of the formatter of _getDateParts (hour12: false), in a time
\* zone Intl knows: the fields of the wall clock at the instant
WallClock(date, timeZone) ==
  LET seconds  == BigDivSmall(date.time, 1000)
      minutesU == BigDivSmall(seconds, 60)
      second   == BigToInt(BigSub(seconds, BigMulSmall(minutesU, 60)))
      milli    == BigToInt(BigSub(date.time, BigMulSmall(seconds, 1000)))
      minutes  == BigToInt(minutesU) + TimeZoneOffsetMinutes(timeZone)
      days     == minutes \div 1440
      civil    == CivilFromDays(days)
  IN  [year        |-> civil.year,
       month       |-> civil.month,
       day         |-> civil.day,
       weekday     |-> (days + 4) % 7,
       hour        |-> (minutes % 1440) \div 60,
       minute      |-> minutes % 60,
       second      |-> second,
       millisecond |-> milli]

\* the sign, hours and minutes of an offset: `${sign}${hours}:${mins}`
OffsetString(offset) ==
  LET abs == IF offset >= 0 THEN offset ELSE 0 - offset
  IN  <<IF offset >= 0 THEN "+" ELSE "-">>
      \o PadStart(IntToDigits(abs \div 60), 2) \o <<":">>
      \o PadStart(IntToDigits(abs % 60), 2)

\* _getTimezoneOffset in a time zone Intl knows: the 'longOffset' name of a
\* zone is "GMT+05:30", and plain "GMT" at offset 0, which the regex misses
_getTimezoneOffset(date, timezone) ==
  IF timezone = "local" THEN OffsetString(TimeZoneOffsetMinutes(LocalTimeZone))
  ELSE IF TimeZoneOffsetMinutes(timezone) = 0 THEN <<>>
  ELSE OffsetString(TimeZoneOffsetMinutes(timezone))

\* _getTimezoneAbbr in a time zone Intl knows: the last word of the en-US
\* rendering with timeZoneName 'short', "UTC" or "GMT+5:30"
_getTimezoneAbbr(date, timezone) ==
  LET zone   == IF timezone = "local" THEN LocalTimeZone ELSE timezone
      offset == TimeZoneOffsetMinutes(zone)
      abs    == IF offset >= 0 THEN offset ELSE 0 - offset
  IN  IF zone = "UTC" THEN <<"U", "T", "C">>
      ELSE <<"G", "M", "T", IF offset >= 0 THEN "+" ELSE "-">>
           \o IntToDigits(abs \div 60)
           \o (IF abs % 60 = 0 THEN <<>>
               ELSE <<":">> \o PadStart(IntToDigits(abs % 60), 2))

\* the 12-hour hour that leaves noon at 0
hour12_noonIsZero(hour) == IF hour >= 12 THEN hour - 12 ELSE hour

\* const hour12 of _getDateParts
hour12(hour) == IF hour = 0 THEN 12 ELSE IF hour > 12 THEN hour - 12 ELSE hour

\* ampm of _getDateParts
ampm(hour) == IF hour < 12 THEN <<"a", "m">> ELSE <<"p", "m">>

\* options.js formatCustom (the preview of the options page): const hour12
formatCustom_hour12(hour) ==
  IF hour = 0 THEN 12 ELSE IF hour > 12 THEN hour - 12 ELSE hour

\* options.js formatCustom: the value of the token a
formatCustom_a(hour) == IF hour < 12 THEN <<"a", "m">> ELSE <<"p", "m">>

\* the object _getDateParts returns, from the parts of formatToParts
DateParts(parts, date, timezone) ==
  [k            |-> "parts",
   year         |-> parts.year,
   month        |-> parts.month,
   monthLong    |-> MonthNames[parts.month],
   monthShort   |-> SubSeq(MonthNames[parts.month], 1, 3),
   day          |-> parts.day,
   weekdayLong  |-> WeekdayNames[parts.weekday + 1],
   weekdayShort |-> SubSeq(WeekdayNames[parts.weekday + 1], 1, 3),
   hour         |-> parts.hour,
   hour12       |-> hour12(parts.hour),
   minute       |-> parts.minute,
   second       |-> parts.second,
   millisecond  |-> parts.millisecond,
   ampm         |-> ampm(parts.hour),
   offset       |-> _getTimezoneOffset(date, timezone),
   tzAbbr       |-> _getTimezoneAbbr(date, timezone)]

\* _getDateParts that reads the wall clock of UTC in every time zone
_getDateParts_inUTC(date, timezone) ==
  IF timezone # "local" /\ timezone \notin KnownTimeZones THEN Throw("RangeError")
  ELSE DateParts(WallClock(date, "UTC"), date, timezone)

\* new Intl.DateTimeFormat raises a RangeError for a time zone it does not know
_getDateParts(date, timezone) ==
  IF timezone # "local" /\ timezone \notin KnownTimeZones THEN Throw("RangeError")
  ELSE DateParts(WallClock(date, IF timezone = "local" THEN LocalTimeZone
                                 ELSE timezone),
                 date, timezone)

\* String.prototype.slice(-2)
Slice2(s) == SubSeq(s, Len(s) - 1, Len(s))

toUpperCase(s) ==
  [i \in 1..Len(s) |-> CASE s[i] = "a" -> "A" [] s[i] = "p" -> "P"
                         [] s[i] = "m" -> "M" [] OTHER -> s[i]]

toLowerCase(s) ==
  [i \in 1..Len(s) |-> CASE s[i] = "A" -> "a" [] s[i] = "P" -> "p"
                         [] s[i] = "M" -> "m" [] OTHER -> s[i]]

\* const tokens of _formatCustom, in the order of its keys
tokens(parts) ==
  << [token |-> <<"Y", "Y", "Y", "Y">>, value |-> IntToDigits(parts.year)],
     [token |-> <<"Y", "Y">>        , value |-> Slice2(IntToDigits(parts.year))],
     [token |-> <<"M", "M", "M", "M">>, value |-> parts.monthLong],
     [token |-> <<"M", "M", "M">>   , value |-> parts.monthShort],
     [token |-> <<"M", "M">>        , value |-> PadStart(IntToDigits(parts.month), 2)],
     [token |-> <<"M">>             , value |-> IntToDigits(parts.month)],
     [token |-> <<"D", "D">>        , value |-> PadStart(IntToDigits(parts.day), 2)],
     [token |-> <<"D">>             , value |-> IntToDigits(parts.day)],
     [token |-> <<"d", "d", "d", "d">>, value |-> parts.weekdayLong],
     [token |-> <<"d", "d", "d">>   , value |-> parts.weekdayShort],
     [token |-> <<"H", "H">>        , value |-> PadStart(IntToDigits(parts.hour), 2)],
     [token |-> <<"H">>             , value |-> IntToDigits(parts.hour)],
     [token |-> <<"h", "h">>        , value |-> PadStart(IntToDigits(parts.hour12), 2)],
     [token |-> <<"h">>             , value |-> IntToDigits(parts.hour12)],
     [token |-> <<"m", "m">>        , value |-> PadStart(IntToDigits(parts.minute), 2)],
     [token |-> <<"m">>             , value |-> IntToDigits(parts.minute)],
     [token |-> <<"s", "s">>        , value |-> PadStart(IntToDigits(parts.second), 2)],
     [token |-> <<"s">>             , value |-> IntToDigits(parts.second)],
     [token |-> <<"S", "S", "S">>   , value |-> PadStart(IntToDigits(parts.millisecond), 3)],
     [token |-> <<"A">>             , value |-> toUpperCase(parts.ampm)],
     [token |-> <<"a">>             , value |-> toLowerCase(parts.ampm)],
     [token |-> <<"Z">>             , value |-> parts.offset],
     [token |-> <<"z">>             , value |-> parts.tzAbbr] >>

\* the keys of the tokens of length n and less, longest first, keys of one
\* length in the order they have in the object (Array.prototype.sort is stable)
RECURSIVE LongestFirst(_, _)
LongestFirst(keys, n) ==
  IF n = 0 THEN <<>>
  ELSE SelectSeq(keys, LAMBDA key : Len(key) = n) \o LongestFirst(keys, n - 1)

\* the keys shortest first
RECURSIVE ShortestFirst(_, _)
ShortestFirst(keys, n) ==
  IF n = 0 THEN <<>>
  ELSE ShortestFirst(keys, n - 1) \o SelectSeq(keys, LAMBDA key : Len(key) = n)

\* sortedTokens with the comparison the wrong way round
sortedTokens_shortestFirst(table) ==
  ShortestFirst([i \in 1..Len(table) |-> table[i].token], 4)

\* Object.keys(tokens).sort((a, b) => b.length - a.length): no key is longer
\* than "YYYY"
sortedTokens(table) ==
  LongestFirst([i \in 1..Len(table) |-> table[i].token], 4)

\* result.replace(new RegExp(token, 'g'), value) for a token of letters: every
\* occurrence from the left, none overlapping, none inside the text put in
RECURSIVE ReplaceAll(_, _, _)
ReplaceAll(s, token, value) ==
  IF Len(s) < Len(token) THEN s
  ELSE IF SubSeq(s, 1, Len(token)) = token
       THEN value \o ReplaceAll(SubSeq(s, Len(token) + 1, Len(s)), token, value)
       ELSE <<Head(s)>> \o ReplaceAll(Tail(s), token, value)

\* tokens[token]
TokenValue(table, token) ==
  table[CHOOSE i \in 1..Len(table) : table[i].token = token].value

\* the for loop of _formatCustom from the i-th sorted token on
RECURSIVE ReplaceTokens(_, _, _, _)
ReplaceTokens(result, sorted, table, i) ==
  IF i > Len(sorted) THEN result
  ELSE ReplaceTokens(ReplaceAll(result, sorted[i], TokenValue(table, sorted[i])),
                     sorted, table, i + 1)

\* what a call completes with when it returns
Return(value) == [k |-> "return", value |-> value]

\* the loop of _formatCustom over the sorted keys of the token table
ReplaceSorted(pattern, table) ==
  ReplaceTokens(pattern, sortedTokens(table), table, 1)

\* _formatCustom on the parts _getDateParts returned, or on what it threw
CustomResult(pattern, parts) ==
  IF parts.k = "throw" THEN parts
  ELSE Return(ReplaceSorted(pattern, tokens(parts)))

\* the string returned (a sequence of characters), or what was thrown
_formatCustom(date, pattern, timezone) ==
  CustomResult(pattern, _getDateParts(date, timezone))

\* Date.prototype.toISOString
ISOString(t) ==
  IntToDigits(t.year) \o <<"-">> \o PadStart(IntToDigits(t.month), 2)
  \o <<"-">> \o PadStart(IntToDigits(t.day), 2) \o <<"T">>
  \o PadStart(IntToDigits(t.hour), 2) \o <<":">>
  \o PadStart(IntToDigits(t.minute), 2) \o <<":">>
  \o PadStart(IntToDigits(t.second), 2) \o <<".">>
  \o PadStart(IntToDigits(t.millisecond), 3) \o <<"Z">>

toISOString(date) == ISOString(WallClock(date, "UTC"))

\* new Date(date.getTime() - date.getTimezoneOffset() * 60000), where
\* -date.getTimezoneOffset() is offset
ShiftedDate(date, offset) ==
  IF offset >= 0 THEN NewDate(BigAdd(date.time, BigFromInt(offset * 60000)))
  ELSE NewDate(BigSub(date.time, BigFromInt((0 - offset) * 60000)))

\* local.toISOString().slice(0, -1) + sign + hours + ':' + mins
LocalISO(local, suffix) == SubSeq(local, 1, Len(local) - 1) \o suffix

_formatISO(date, timezone) ==
  IF timezone = "local"
  THEN Return(LocalISO(toISOString(ShiftedDate(date,
                                TimeZoneOffsetMinutes(LocalTimeZone))),
                       OffsetString(TimeZoneOffsetMinutes(LocalTimeZone))))
  ELSE IF timezone = "UTC" THEN Return(toISOString(date))
  ELSE _formatCustom(date, <<"Y", "Y", "Y", "Y", "-", "M", "M", "-", "D", "D", "T",
                            "H", "H", ":", "m", "m", ":", "s", "s">>, timezone)

\* 'YYYY-MM-DD HH:mm:ss', the default of customFormat
DefaultCustomFormat ==
  <<"Y", "Y", "Y", "Y", "-", "M", "M", "-", "D", "D", " ",
    "H", "H", ":", "m", "m", ":", "s", "s">>

\* the switch of formatDate: what it returns, or what it throws
formatSwitch(date, format, customFormat, timezone) ==
  CASE format = "iso"      -> _formatISO(date, timezone)
    [] format = "relative" -> Return(_formatRelative(date))
    [] format = "custom"   -> _formatCustom(date, customFormat, timezone)
    [] OTHER -> IF timezone = "local" \/ timezone \in KnownTimeZones
                THEN Return(toLocaleString(date, timezone, "short"))
                ELSE Throw("RangeError")

\* the string the switch returned, as a string of TLA+
Returned(format, result) ==
  IF format \in {"iso", "custom"} THEN Text(result.value) ELSE result.value

\* the switch on the destructured options
SwitchOn(date, options) ==
  formatSwitch(date, Opt(options, "format", "locale"),
               Opt(options, "customFormat", DefaultCustomFormat),
               Opt(options, "timezone", "local"))

\* the body of formatDate around the result of its switch, without the try
\* and catch: the exception leaves the call
TryCatch_none(date, format, result) ==
  IF date.k = "null" THEN Return("Invalid Date")
  ELSE IF result.k = "throw" THEN result
  ELSE Return(Returned(format, result))

\* the body of formatDate around the result of its switch: the guard, and the
\* catch that returns date.toLocaleString()
TryCatch(date, format, result) ==
  IF date.k = "null" THEN Return("Invalid Date")
  ELSE IF result.k = "throw"
  THEN Return(toLocaleString(date, "local", "default"))
  ELSE Return(Returned(format, result))

\* formatDate (null is no Date): what it returns, or what it throws
formatDate(date, options) ==
  TryCatch(date, Opt(options, "format", "locale"), SwitchOn(date, options))

\* the fields of a successful result that convert always sets
ConvertResult(timestamp, date, ms, options) ==
  [success      |-> TRUE,
   original     |-> timestamp,
   milliseconds |-> ms,
   seconds      |-> IntNum(BigDivSmall(ms.mag, 1000)),
   isSeconds    |-> Len(JSString(timestamp)) = 10,
   date         |-> date,
   formatted    |-> formatDate(date, options).value,
   relative     |-> _formatRelative(date)]

\* result.secondaryFormatted = formatDate(date, {...options, timezone})
WithSecondary(result, date, options) ==
  ("secondaryFormatted" :>
     formatDate(date, ("timezone" :> options.secondaryTimezone) @@ options).value)
  @@ result

\* the secondary rendering added whenever a secondary time zone is named,
\* asked for or not
AddSecondary_flagIgnored(result, date, options) ==
  IF Opt(options, "secondaryTimezone", "") # ""
  THEN WithSecondary(result, date, options)
  ELSE result

\* if (options.showSecondaryTimezone && options.secondaryTimezone)
AddSecondary(result, date, options) ==
  IF Opt(options, "showSecondaryTimezone", FALSE)
     /\ Opt(options, "secondaryTimezone", "") # ""
  THEN WithSecondary(result, date, options)
  ELSE result

\* the result of convert for a timestamp that toDate accepted
convertSuccess(timestamp, options) ==
  AddSecondary(
    ConvertResult(timestamp, toDate(timestamp), toMilliseconds(timestamp), options),
    toDate(timestamp), options)

\* convert whose failure record carries a numeric field
convert_partialFields(timestamp, options) ==
  IF toDate(timestamp).k = "null"
  THEN [success |-> FALSE, error |-> "Invalid timestamp", original |-> timestamp,
        milliseconds |-> toMilliseconds(timestamp)]
  ELSE convertSuccess(timestamp, options)

\* convert whose failure record leaves out the raw value
convert_noOriginal(timestamp, options) ==
  IF toDate(timestamp).k = "null"
  THEN [success |-> FALSE, error |-> "Invalid timestamp"]
  ELSE convertSuccess(timestamp, options)

convert(timestamp, options) ==
  IF toDate(timestamp).k = "null"
  THEN [success |-> FALSE, error |-> "Invalid timestamp", original |-> timestamp]
  ELSE convertSuccess(timestamp, options)

----------------------------------------------------------------------------
(* service-worker.js: the standalone conversion of the background script *)

\* formatDate of service-worker.js: iso is UTC, anything else the platform's
\* rendering, and the default rendering when the time zone is not known
swFormatDate(date, settings_) ==
  LET timezone == Opt(settings_, "timezone", "local")
      format   == Opt(settings_, "format", "locale")
  IN  IF format = "iso" THEN Text(toISOString(date))
      ELSE IF timezone = "local" \/ timezone \in KnownTimeZones
      THEN toLocaleString(date, timezone, "short")
      ELSE toLocaleString(date, "local", "default")

\* the successful result of convertTimestamp
swResult(timestamp, ms, date, settings_) ==
  [success      |-> TRUE,
   original     |-> timestamp,
   milliseconds |-> ms,
   seconds      |-> IntNum(BigDivSmall(ms.mag, 1000)),
   isSeconds    |-> Len(JSString(timestamp)) = 10,
   date         |-> Text(toISOString(date)),
   formatted    |-> swFormatDate(date, settings_)]

\* isValidTimestamp and toMilliseconds of service-worker.js are those of the
\* Converter, line by line
convertTimestamp(timestamp, settings_) ==
  IF ~isValidTimestamp(timestamp)
  THEN [success |-> FALSE, error |-> "Invalid timestamp"]
  ELSE swResult(timestamp, toMilliseconds(timestamp),
                NewDate(toMilliseconds(timestamp).mag), settings_)

----------------------------------------------------------------------------
(* constants.js TIMESTAMP_REGEX = /\b(\d{10}|\d{13})\b/g and findTimestamps. *)
(* Offsets are JavaScript's: offset p lies before the character text[p + 1]. *)

IsWordAt(text_, i) == i >= 1 /\ i <= Len(text_) /\ text_[i] \in WordChar

\* a regex without \b: every offset passes
WordBoundary_none(text_, p) == TRUE

\* \b at offset p
WordBoundary(text_, p) == IsWordAt(text_, p) # IsWordAt(text_, p + 1)

\* \d{n} at offset p
DigitsAt(text_, p, n) ==
  p + n <= Len(text_) /\ \A i \in (p + 1)..(p + n) : text_[i] \in Digit

\* TIMESTAMP_REGEX with the first alternative only
MatchAt_tenOnly(text_, p) ==
  IF ~WordBoundary(text_, p) THEN 0
  ELSE IF DigitsAt(text_, p, 10) /\ WordBoundary(text_, p + 10) THEN 10
  ELSE 0

\* the length of the match of \b(\d{10}|\d{13})\b that starts at offset p,
\* or 0: the first alternative is tried first
MatchAt(text_, p) ==
  IF ~WordBoundary(text_, p) THEN 0
  ELSE IF DigitsAt(text_, p, 10) /\ WordBoundary(text_, p + 10) THEN 10
  ELSE IF DigitsAt(text_, p, 13) /\ WordBoundary(text_, p + 13) THEN 13
  ELSE 0

\* RegExp.prototype.exec of a regex with the g flag: the leftmost match at or
\* after lastIndex, and the lastIndex the call leaves behind
exec(text_, li) ==
  LET ps == {p \in li..Len(text_) : MatchAt(text_, p) > 0}
      p  == CHOOSE q \in ps : \A r \in ps : q <= r
  IN  IF ps = {} THEN [match |-> Null, lastIndex |-> 0]
      ELSE [match     |-> [k |-> "match", index |-> p,
                           value |-> SubSeq(text_, p + 1, p + MatchAt(text_, p))],
            lastIndex |-> p + MatchAt(text_, p)]

RECURSIVE ScanLoop(_, _, _)
ScanLoop(text_, li, results) ==
  LET m         == exec(text_, li)
      timestamp == m.match.value
  IN  IF m.match.k = "null" THEN results
      ELSE ScanLoop(text_, m.lastIndex,
             IF isValidTimestamp(StrVal(timestamp))
             THEN Append(results, [value     |-> timestamp,
                                   index     |-> m.match.index,
                                   length    |-> Len(timestamp),
                                   isSeconds |-> Len(timestamp) = 10])
             ELSE results)

\* lastIndex of new RegExp(TIMESTAMP_REGEX.source, 'g')
NewRegExpLastIndex == 0

\* findTimestamps that scans with the shared TIMESTAMP_REGEX object
findTimestamps_sharedRegex(text_) == ScanLoop(text_, lastIndex, <<>>)

findTimestamps(text_) == ScanLoop(text_, NewRegExpLastIndex, <<>>)

----------------------------------------------------------------------------
(* The values and texts the calls are made on *)

\* at most this many pieces of the vocabulary make up a value or a text
MaxParts == 3

RECURSIVE Concats(_, _)
Concats(vocab, n) ==
  IF n = 0 THEN {<<>>}
  ELSE LET shorter == Concats(vocab, n - 1)
       IN  shorter \cup {s \o t : s \in shorter, t \in vocab}

ValueVocab ==
  { <<" ">>, <<"-">>, <<".">>, <<"i", "d">>,
    <<"0">>, <<"0", "0", "0">>, <<"9", "9", "9">>,
    Chars(<<9, 4, 6, 6, 8, 4, 7, 9, 9>>),
    Chars(<<9, 4, 6, 6, 8, 4, 8, 0, 0>>),
    Chars(<<1, 7, 0, 1, 7, 9, 2, 0, 0, 0>>),
    Chars(<<4, 1, 0, 2, 4, 4, 4, 8, 0, 0>>),
    Chars(<<4, 1, 0, 2, 4, 4, 4, 8, 0, 1>>) }

ValueStrings == Concats(ValueVocab, MaxParts)

\* every string of the vocabulary, and every number such a string denotes
ValueInputs ==
  {StrVal(s) : s \in ValueStrings}
  \cup {NumVal(StringToNumber(s)) :
          s \in {x \in ValueStrings : StringToNumber(x).k \in {"num", "nan"}}}

TextVocab ==
  { <<" ">>, <<".">>, <<"_">>, <<"i", "d">>, <<"t", "s", "=">>,
    <<" ", "d", "o", "n", "e">>,
    <<"0">>, <<"0", "0", "0">>,
    Chars(<<9, 4, 6, 6, 8, 4, 7, 9, 9>>),
    Chars(<<1, 7, 0, 1, 7, 9, 2, 0, 0, 0>>),
    Chars(<<4, 1, 0, 2, 4, 4, 4, 8, 0, 1>>) }

Texts == Concats(TextVocab, MaxParts)

\* the option records handed to convert
OptionSets ==
  { <<>>,
    [format |-> "relative"],
    [timezone |-> "UTC", showSecondaryTimezone |-> TRUE,
     secondaryTimezone |-> "Asia/Kolkata"],
    [timezone |-> "Mars/Olympus", showSecondaryTimezone |-> FALSE,
     secondaryTimezone |-> "UTC"],
    [showSecondaryTimezone |-> TRUE, secondaryTimezone |-> ""] }

\* 2023-12-05T17:00:00Z
Clock0 == Big(1701795, 600000)

None == [op |-> "none"]

\* no page: the calls are made outside the content script
NoPage ==
  /\ doc = <<>>
  /\ timestampCount = 0
  /\ observer = FALSE
  /\ records = <<>>
  /\ scanTimeout = Null
  /\ scanned = {}
  /\ badge = 0
  /\ pc = "none"
  /\ listening = FALSE
  /\ stored = Null
  /\ events = 0
  /\ calls = <<>>

----------------------------------------------------------------------------
(* Spec: the calls of the value API on one value *)

Init ==
  /\ arg \in ValueInputs
  /\ text = <<>>
  /\ now = Clock0
  /\ lastIndex = 0
  /\ ret = None
  /\ firstScan = None
  /\ settings \in OptionSets
  /\ firstConvert = None
  /\ NoPage

CallIsValidTimestamp ==
  /\ ret' = [op |-> "isValidTimestamp", val |-> isValidTimestamp(arg)]
  /\ UNCHANGED <<arg, text, now, lastIndex, firstScan, settings, firstConvert>>
  /\ UNCHANGED pageVars

\* toMilliseconds on a value that denotes an integer or nothing (the product
\* of a decimal fraction is a rounded binary fraction, which is not modelled)
CallToMilliseconds ==
  /\ LET n == StringToNumber(Trim(JSString(arg)))
     IN  n.k = "nan" \/ (n.k = "num" /\ n.frac = <<>>)
  /\ ret' = [op |-> "toMilliseconds", val |-> toMilliseconds(arg)]
  /\ UNCHANGED <<arg, text, now, lastIndex, firstScan, settings, firstConvert>>
  /\ UNCHANGED pageVars

CallToDate ==
  /\ ret' = [op |-> "toDate", val |-> toDate(arg)]
  /\ UNCHANGED <<arg, text, now, lastIndex, firstScan, settings, firstConvert>>
  /\ UNCHANGED pageVars

CallConvert ==
  /\ ret' = [op |-> "convert", options |-> settings, val |-> convert(arg, settings)]
  /\ firstConvert' = IF firstConvert.op = "none"
                     THEN [op |-> "convert", val |-> ret'.val,
                           lastIndex |-> lastIndex]
                     ELSE firstConvert
  /\ UNCHANGED <<arg, text, now, lastIndex, firstScan, settings>>
  /\ UNCHANGED pageVars

\* convertTimestamp of the service worker, on the same value and settings
CallConvertTimestamp ==
  /\ ret' = [op |-> "convertTimestamp", options |-> settings,
             val |-> convertTimestamp(arg, settings)]
  /\ UNCHANGED <<arg, text, now, lastIndex, firstScan, settings, firstConvert>>
  /\ UNCHANGED pageVars

Next ==
  \/ CallIsValidTimestamp
  \/ CallToMilliseconds
  \/ CallToDate
  \/ CallConvert
  \/ CallConvertTimestamp

Spec == Init /\ [][Next]_vars

----------------------------------------------------------------------------
(* SpecDetect: findTimestamps and the shared TIMESTAMP_REGEX on one text *)

InitDetect ==
  /\ arg = StrVal(<<>>)
  /\ text \in Texts
  /\ now = Clock0
  /\ lastIndex = 0
  /\ ret = None
  /\ firstScan = None
  /\ settings = <<>>
  /\ firstConvert = None
  /\ NoPage

CallFindTimestamps ==
  /\ ret' = [op |-> "findTimestamps", val |-> findTimestamps(text)]
  /\ firstScan' = IF firstScan.op = "none" THEN ret' ELSE firstScan
  /\ UNCHANGED <<arg, text, now, lastIndex, settings, firstConvert>>
  /\ UNCHANGED pageVars

\* Constants.TIMESTAMP_REGEX.test(text), as the tree walkers of content.js
\* call it: test is exec on the shared regex, which keeps its lastIndex
CallRegexTest ==
  /\ LET m == exec(text, lastIndex)
     IN  /\ ret' = [op |-> "test", val |-> m.match.k # "null"]
         /\ lastIndex' = m.lastIndex
  /\ UNCHANGED <<arg, text, now, firstScan, settings, firstConvert>>
  /\ UNCHANGED pageVars

NextDetect ==
  \/ CallFindTimestamps
  \/ CallRegexTest

SpecDetect == InitDetect /\ [][NextDetect]_vars

----------------------------------------------------------------------------
(* SpecRelative: formatting one instant at clock readings around it *)

\* the clock is read up to this many days before and after the instant
MaxDays == 31

DayMs == 86400 * 1000

ClockDays ==
  (0..MaxDays) \cup {59, 60, 359, 360, 361, 364, 365, 366, 729, 730, 731, 1460}

ClockRemainders ==
  {0, 1, 999, 1000, 1001, 59999, 60000, 3599999, 3600000, DayMs - 1}

ClockOffsets ==
  {BigAdd(BigMulSmall(BigFromInt(DayMs), d), BigFromInt(r)) :
     d \in ClockDays, r \in ClockRemainders}

\* "1701792000": 2023-12-05T16:00:00Z
Instant == Chars(<<1, 7, 0, 1, 7, 9, 2, 0, 0, 0>>)

InstantMs == Big(1701792, 0)

Clocks ==
  {BigAdd(InstantMs, o) : o \in ClockOffsets}
  \cup {BigSub(InstantMs, o) : o \in ClockOffsets}

InitRelative ==
  /\ arg = StrVal(Instant)
  /\ text = <<>>
  /\ now \in Clocks
  /\ lastIndex = 0
  /\ ret = None
  /\ firstScan = None
  /\ settings \in OptionSets
  /\ firstConvert = None
  /\ NoPage

\* the record of a formatDate call that completed with c
Completed(c) ==
  [op |-> "formatDate", options |-> settings, completion |-> c.k,
   val |-> IF c.k = "throw" THEN c.error ELSE c.value]

\* formatDate(toDate(arg), settings): completion tells a return from a throw
CallFormatDate ==
  /\ ret' = Completed(formatDate(toDate(arg), settings))
  /\ UNCHANGED <<arg, text, now, lastIndex, firstScan, settings, firstConvert>>
  /\ UNCHANGED pageVars

NextRelative ==
  \/ CallFormatDate
  \/ CallConvert

SpecRelative == InitRelative /\ [][NextRelative]_vars

----------------------------------------------------------------------------
(* SpecFormat: formatDate in every dialect, on instants of every month,     *)
(* weekday and hour                                                          *)

\* the instants lie in this many months after the first
MaxMonths == 11

\* 2023-12-05T00:00:00Z, in seconds
FormatDay0 == 1701734400

\* the 24 hours of one day at 00:01:01 past the hour, and 16:00:00 on a day of
\* each month
FormatSeconds ==
  {FormatDay0 + h * 3600 + 61 : h \in 0..23}
  \cup {FormatDay0 + k * 31 * 86400 + 16 * 3600 : k \in 0..MaxMonths}

\* the timestamps formatted: seconds, milliseconds, and one that is no Date
FormatInputs ==
  {StrVal(IntToDigits(n)) : n \in FormatSeconds}
  \cup {StrVal(IntToDigits(n) \o <<"0", "4", "2">>) : n \in FormatSeconds}
  \cup {StrVal(<<"1", "2", "3">>)}

\* FORMAT_PATTERNS, the default, every token alone, and tokens side by side
Patterns ==
  { <<"Y", "Y", "Y", "Y", "-", "M", "M", "-", "D", "D", "T", "H", "H", ":", "m", "m", ":", "s", "s", ".", "S", "S", "S", "Z">>,
    <<"Y", "Y", "Y", "Y", "-", "M", "M", "-", "D", "D", " ", "H", "H", ":", "m", "m">>,
    <<"M", "M", "M", "M", " ", "D", ",", " ", "Y", "Y", "Y", "Y", " ", "h", ":", "m", "m", ":", "s", "s", " ", "A">>,
    <<"Y", "Y", "Y", "Y", "-", "M", "M", "-", "D", "D">>,
    <<"H", "H", ":", "m", "m", ":", "s", "s">>,
    <<"Y", "Y", "Y", "Y", "-", "M", "M", "-", "D", "D", " ", "H", "H", ":", "m", "m", ":", "s", "s">>,
    <<"D", "D", "/", "M", "M", "/", "Y", "Y", "Y", "Y">>,
    <<"Y", "Y", "Y", "Y", "M", "M", "D", "D">>,
    <<"H", "H", ".", "m", "m", ".", "s", "s">>,
    <<"Y", "Y", "Y", "Y">>,
    <<"Y", "Y">>,
    <<"M", "M", "M", "M">>,
    <<"M", "M", "M">>,
    <<"M", "M">>,
    <<"M">>,
    <<"D", "D">>,
    <<"D">>,
    <<"d", "d", "d", "d">>,
    <<"d", "d", "d">>,
    <<"H", "H">>,
    <<"H">>,
    <<"h", "h">>,
    <<"h">>,
    <<"m", "m">>,
    <<"m">>,
    <<"s", "s">>,
    <<"s">>,
    <<"S", "S", "S">>,
    <<"A">>,
    <<"a">>,
    <<"Z">>,
    <<"z">>,
    <<"h", "h", ":", "m", "m", " ", "a">>,
    <<"d", "d", "d", ",", " ", "D", " ", "M", "M", "M", " ", "Y", "Y", "Y", "Y">>,
    <<"D", "M", "M", "M", "M">>,
    <<"M", "M", "M", "M", "M">>,
    <<"Y", "Y", "Y", "Y", "Y", "Y">>,
    <<>> }

FormatTimeZones == {"local", "UTC", "Asia/Kolkata", "Mars/Olympus"}

FormatOptionSets ==
  {[format |-> "custom", customFormat |-> p, timezone |-> z] :
     p \in Patterns, z \in FormatTimeZones}
  \cup {[format |-> f, timezone |-> z] :
          f \in {"iso", "locale", "relative", "custom"}, z \in FormatTimeZones}
  \cup {<<>>}

InitFormat ==
  /\ arg \in FormatInputs
  /\ text = <<>>
  /\ now = Clock0
  /\ lastIndex = 0
  /\ ret = None
  /\ firstScan = None
  /\ settings \in FormatOptionSets
  /\ firstConvert = None
  /\ NoPage

NextFormat ==
  \/ CallFormatDate
  \/ CallToDate

SpecFormat == InitFormat /\ [][NextFormat]_vars

----------------------------------------------------------------------------
(* SpecCalls: convert among the other calls of the core, on one value, one  *)
(* text and one options object                                              *)

CallValues ==
  { StrVal(Instant), StrVal(Instant \o <<"0", "4", "2">>),
    StrVal(<<" ">> \o Instant), StrVal(Instant \o <<"0">>),
    NumVal(StringToNumber(Instant)) }

CallTexts ==
  { <<"t", "s", "=">> \o Instant \o <<" ", "d", "o", "n", "e">>,
    Instant \o <<" ">> \o Instant,
    <<"i", "d">> }

InitCalls ==
  /\ arg \in CallValues
  /\ text \in CallTexts
  /\ now = Clock0
  /\ lastIndex = 0
  /\ ret = None
  /\ firstScan = None
  /\ settings \in OptionSets
  /\ firstConvert = None
  /\ NoPage

NextCalls ==
  \/ CallConvert
  \/ CallFindTimestamps
  \/ CallIsValidTimestamp
  \/ CallRegexTest

SpecCalls == InitCalls /\ [][NextCalls]_vars

----------------------------------------------------------------------------
(* content.js: the page.  A text node of the document is a record: the tag  *)
(* of its parent element, its text, and how many timestamp wrappers are     *)
(* around it (the parent of a wrapped text is the wrapper's -original       *)
(* span).  id names the node the page put there, added tells how: "initial" *)
(* at load, "element" as the only child of an element added later, "text"   *)
(* as a text node added later into an element that was there; piece marks   *)
(* the nodes processTextNode has made out of it, badges counts the -badge   *)
(* spans of its wrappers (inline display mode), and restored marks the text *)
(* nodes cleanup() has put in the place of wrappers.                        *)

SKIP_ELEMENTS ==
  {"SCRIPT", "STYLE", "NOSCRIPT", "IFRAME", "OBJECT", "EMBED", "INPUT",
   "TEXTAREA", "SELECT", "BUTTON"}

TextNode(id, added, tag, nodeValue) ==
  [id |-> id, added |-> added, tag |-> tag, nodeValue |-> nodeValue,
   wraps |-> 0, badges |-> 0, piece |-> FALSE, restored |-> FALSE]

\* node.parentNode.tagName
parentTagName(node) == IF node.wraps > 0 THEN "SPAN" ELSE node.tag

\* acceptNode that tests with a regex of its own
acceptNode_ownRegex(node, li) ==
  IF parentTagName(node) \in SKIP_ELEMENTS
  THEN [accept |-> FALSE, lastIndex |-> li]
  ELSE [accept |-> exec(node.nodeValue, 0).match.k # "null", lastIndex |-> li]

\* acceptNode of the tree walkers, called with TIMESTAMP_REGEX.lastIndex at
\* li: whether the node is accepted, and the lastIndex the call leaves.  (The
\* class test is on the parent, which for a wrapped text is the -original
\* span, never the -timestamp wrapper itself.)
acceptNode(node, li) ==
  IF parentTagName(node) \in SKIP_ELEMENTS
  THEN [accept |-> FALSE, lastIndex |-> li]
  ELSE LET m == exec(node.nodeValue, li)
       IN  [accept |-> m.match.k # "null", lastIndex |-> m.lastIndex]

\* while (node = walker.nextNode()) textNodes.push(node), over the nodes at
\* the places is of the document, from the i-th on
\* the -badge spans of a wrapper come after its -original span, and the test
\* of their text (a date in the locale's format, without a run of ten
\* digits) fails and leaves lastIndex at 0
RECURSIVE Walk(_, _, _, _, _)
Walk(nodes, is, i, li, textNodes) ==
  IF i > Len(is) THEN [textNodes |-> textNodes, lastIndex |-> li]
  ELSE LET a == acceptNode(nodes[is[i]], li)
       IN  Walk(nodes, is, i + 1,
                IF nodes[is[i]].badges > 0 THEN 0 ELSE a.lastIndex,
                IF a.accept THEN textNodes \cup {is[i]} ELSE textNodes)

\* createTimestampElement(timestamp) in the place of a part of node: the
\* wrapper, its -original span with the text, and in inline mode its -badge
\* span (result.success holds for every value findTimestamps reports)
createTimestampElement(node, timestamp, displayMode) ==
  [node EXCEPT !.nodeValue = timestamp, !.wraps = @ + 1,
               !.badges = IF displayMode = "inline" THEN @ + 1 ELSE @,
               !.piece = TRUE, !.restored = FALSE]

\* the fragment with text.slice(lastIndex, index + value.length) before each
\* wrapper: the text before a timestamp runs through the timestamp
RECURSIVE Fragment_textThroughTimestamp(_, _, _, _, _)
Fragment_textThroughTimestamp(node, timestamps, k, last, displayMode) ==
  LET text_ == node.nodeValue
  IN  IF k > Len(timestamps)
      THEN IF last < Len(text_)
           THEN <<[node EXCEPT !.nodeValue = SubSeq(text_, last + 1, Len(text_)),
                               !.piece = TRUE, !.restored = FALSE]>>
           ELSE <<>>
      ELSE LET t == timestamps[k]
           IN  (IF t.index > last
                THEN <<[node EXCEPT !.nodeValue =
                                      SubSeq(text_, last + 1, t.index + Len(t.value)),
                                    !.piece = TRUE, !.restored = FALSE]>>
                ELSE <<>>)
               \o <<createTimestampElement(node, t.value, displayMode)>>
               \o Fragment_textThroughTimestamp(node, timestamps, k + 1,
                                                t.index + Len(t.value), displayMode)

\* the fragment processTextNode builds from the k-th timestamp on: the text
\* before each timestamp, its wrapper, and the remaining text
RECURSIVE Fragment(_, _, _, _, _)
Fragment(node, timestamps, k, last, displayMode) ==
  LET text_ == node.nodeValue
  IN  IF k > Len(timestamps)
      THEN IF last < Len(text_)
           THEN <<[node EXCEPT !.nodeValue = SubSeq(text_, last + 1, Len(text_)),
                               !.piece = TRUE, !.restored = FALSE]>>
           ELSE <<>>
      ELSE LET t == timestamps[k]
           IN  (IF t.index > last
                THEN <<[node EXCEPT !.nodeValue = SubSeq(text_, last + 1, t.index),
                                    !.piece = TRUE, !.restored = FALSE]>>
                ELSE <<>>)
               \o <<createTimestampElement(node, t.value, displayMode)>>
               \o Fragment(node, timestamps, k + 1, t.index + Len(t.value),
                           displayMode)

\* the nodes that take the place of a text node with these timestamps: the
\* node itself if (timestamps.length === 0), or else the fragment
Replacement(node, timestamps, displayMode) ==
  IF timestamps = <<>> THEN <<node>>
  ELSE Fragment(node, timestamps, 1, 0, displayMode)

\* the nodes that take the place of a text node in processTextNode
processTextNode(node, displayMode) ==
  Replacement(node, findTimestamps(node.nodeValue), displayMode)

\* textNodes.forEach(processTextNode): the document from its i-th node on
RECURSIVE ProcessNodes(_, _, _, _)
ProcessNodes(nodes, textNodes, i, displayMode) ==
  IF i > Len(nodes) THEN <<>>
  ELSE (IF i \in textNodes THEN processTextNode(nodes[i], displayMode)
        ELSE <<nodes[i]>>)
       \o ProcessNodes(nodes, textNodes, i + 1, displayMode)

\* the wrappers processTextNode makes for the nodes textNodes: timestampCount++
RECURSIVE CountNodes(_, _, _)
CountNodes(nodes, textNodes, i) ==
  IF i > Len(nodes) THEN 0
  ELSE (IF i \in textNodes THEN Len(findTimestamps(nodes[i].nodeValue)) ELSE 0)
       + CountNodes(nodes, textNodes, i + 1)

\* the places of the document
Places(nodes) == [i \in 1..Len(nodes) |-> i]

\* the elements of a sequence
Range(seq) == {seq[i] : i \in 1..Len(seq)}

\* the document, TIMESTAMP_REGEX.lastIndex, timestampCount and
\* settings.displayMode
PageState(nodes, li, count, displayMode) ==
  [doc |-> nodes, lastIndex |-> li, timestampCount |-> count,
   displayMode |-> displayMode]

\* textNodes.forEach(processTextNode) on what the walk w has collected
Processed(nodes, w, count, displayMode) ==
  PageState(ProcessNodes(nodes, w.textNodes, 1, displayMode), w.lastIndex,
            count + CountNodes(nodes, w.textNodes, 1), displayMode)

\* scanPage on the document nodes with TIMESTAMP_REGEX.lastIndex at li:
\* timestampCount = 0, the walk, and the processing
scanPage(nodes, li, displayMode) ==
  Processed(nodes, Walk(nodes, Places(nodes), 1, li, {}), 0, displayMode)

\* the places of the text nodes under the added element id
PlacesUnder(nodes, id) ==
  SelectSeq(Places(nodes), LAMBDA i : nodes[i].id = id)

\* scanElement on an element whose text nodes are at the places is (its tag
\* is that of its text nodes)
ScanPlaces(s, is) ==
  IF is = <<>> \/ s.doc[is[1]].tag \in SKIP_ELEMENTS THEN s
  ELSE Processed(s.doc, Walk(s.doc, is, 1, s.lastIndex, {}), s.timestampCount,
                 s.displayMode)

\* scanElement on the added element id
scanElement(s, id) == ScanPlaces(s, PlacesUnder(s.doc, id))

\* processTextNode on the text node at the first of the places is, if any
ProcessPlace(s, is) ==
  IF is = <<>> THEN s
  ELSE PageState(ProcessNodes(s.doc, {is[1]}, 1, s.displayMode), s.lastIndex,
                 s.timestampCount + CountNodes(s.doc, {is[1]}, 1),
                 s.displayMode)

\* processTextNode on the added text node id, if it still is in the document
\* (a node that has been replaced has no parent)
processAddedText(s, id) ==
  ProcessPlace(s, SelectSeq(Places(s.doc),
                            LAMBDA i : s.doc[i].id = id /\ ~s.doc[i].piece))

\* how the page added node id, or "piece" for the nodes of a fragment
AddedAs(nodes, id) ==
  IF \E i \in 1..Len(nodes) : nodes[i].id = id
  THEN nodes[CHOOSE i \in 1..Len(nodes) : nodes[i].id = id].added
  ELSE "piece"

\* the places of the texts that processTextNode has put beside its wrappers
TextPieces(nodes) ==
  {i \in 1..Len(nodes) :
     nodes[i].piece /\ nodes[i].wraps = 0 /\ ~nodes[i].restored}

\* the handling of the added nodes of a record that replaceChild(fragment,
\* textNode) has queued: scanElement leaves a wrapper at once, by its class,
\* and processTextNode is run on the texts (here: on the texts of every
\* fragment in the document)
processFragments(s) ==
  PageState(ProcessNodes(s.doc, TextPieces(s.doc), 1, s.displayMode),
            s.lastIndex,
            s.timestampCount + CountNodes(s.doc, TextPieces(s.doc), 1),
            s.displayMode)

\* the callback of setTimeout on the added nodes of the mutations, from the
\* k-th on.  The record of a fragment, and a record without added nodes, is
\* recorded as 0
RECURSIVE HandleMutations(_, _, _)
HandleMutations(s, mutations, k) ==
  IF k > Len(mutations) THEN s
  ELSE HandleMutations(
         CASE AddedAs(s.doc, mutations[k]) = "element" -> scanElement(s, mutations[k])
           [] AddedAs(s.doc, mutations[k]) = "text" -> processAddedText(s, mutations[k])
           [] AddedAs(s.doc, mutations[k]) = "piece" -> processFragments(s)
           [] OTHER -> s,
         mutations, k + 1)

----------------------------------------------------------------------------
(* SpecPage: one page.  The content script loads into a document, the page  *)
(* adds nodes, and the mutation observer's callback and its debounce timer  *)
(* run in the order the event loop allows.                                  *)

\* at most this many text nodes are put into the document by the page,
\* before the script loads and after
MaxNodes == 3

PageTags == {"P", "SCRIPT"}

PageValues ==
  { Instant,
    <<"i", "d", " ">> \o Instant,
    Chars(<<4, 1, 0, 2, 4, 4, 4, 8, 0, 1>>),
    <<"i", "d">> }

\* what the page adds after the script has loaded: an element with one text
\* node, or a text node to an element that is there
AddedNodes ==
  { [added |-> "element", tag |-> "P",      nodeValue |-> Instant],
    [added |-> "element", tag |-> "P",      nodeValue |-> <<"i", "d">>],
    [added |-> "element", tag |-> "SCRIPT", nodeValue |-> Instant],
    [added |-> "text",    tag |-> "P",      nodeValue |-> Instant],
    [added |-> "text",    tag |-> "SCRIPT", nodeValue |-> Instant] }

RECURSIVE Docs(_)
Docs(n) ==
  IF n = 0 THEN {<<>>}
  ELSE LET shorter == Docs(n - 1)
       IN  shorter \cup
           { Append(d, TextNode(Len(d) + 1, "initial", tag, v)) :
               d \in {e \in shorter : Len(e) = n - 1},
               tag \in PageTags, v \in PageValues }

InitialDocs == Docs(MaxNodes)

\* the settings Storage.getSettings() gives init(): DEFAULT_SETTINGS, and
\* each of the three switches turned off
PageSettings ==
  { [enabled |-> TRUE,  autoScan |-> TRUE,  showBadgeCount |-> TRUE,
     displayMode |-> "tooltip"],
    [enabled |-> TRUE,  autoScan |-> FALSE, showBadgeCount |-> TRUE,
     displayMode |-> "tooltip"],
    [enabled |-> TRUE,  autoScan |-> TRUE,  showBadgeCount |-> FALSE,
     displayMode |-> "tooltip"],
    [enabled |-> FALSE, autoScan |-> TRUE,  showBadgeCount |-> TRUE,
     displayMode |-> "tooltip"] }

InitPage ==
  /\ arg = StrVal(Instant)
  /\ text = <<>>
  /\ now = Clock0
  /\ lastIndex = 0
  /\ ret = None
  /\ firstScan = None
  /\ settings \in PageSettings
  /\ firstConvert = None
  /\ doc \in InitialDocs
  /\ timestampCount = 0
  /\ observer = FALSE
  /\ records = <<>>
  /\ scanTimeout = Null
  /\ scanned = {}
  /\ badge = 0
  /\ pc = "loading"
  /\ listening = FALSE
  /\ stored = settings
  /\ events = 0
  /\ calls = <<>>

\* updateBadge(): the count the service worker is sent, if any
updateBadge(count) == IF settings.showBadgeCount THEN count ELSE badge

\* the page after a scan op that has left the state s, and updateBadge()
Scanned(op, s) ==
  /\ doc' = s.doc
  /\ lastIndex' = s.lastIndex
  /\ timestampCount' = s.timestampCount
  /\ badge' = updateBadge(s.timestampCount)
  /\ ret' = [op |-> op, before |-> doc, after |-> s.doc]

\* init(): scanPage(), setupMutationObserver() and the two listeners, unless
\* disabled.  (The scan is synchronous, so isScanning is false whenever
\* scanPage is entered.)
init ==
  /\ pc = "loading"
  /\ pc' = "ready"
  /\ IF settings.enabled
     THEN /\ Scanned("scanPage", scanPage(doc, lastIndex, settings.displayMode))
          /\ observer' = settings.autoScan
     ELSE /\ ret' = [op |-> "init"]
          /\ UNCHANGED <<doc, lastIndex, timestampCount, badge, observer>>
  /\ listening' = settings.enabled
  /\ UNCHANGED <<arg, text, now, firstScan, settings, firstConvert>>
  /\ UNCHANGED <<records, scanTimeout, scanned, stored, events, calls>>

\* the ids of the nodes the page has added
AddedIds(nodes) == {nodes[i].id : i \in {j \in 1..Len(nodes) : nodes[j].added # "initial"}}

\* the ids of all nodes the page has put into the document
NodeIds(nodes) == {nodes[i].id : i \in 1..Len(nodes)}

\* the page appends a node; a connected observer is queued a record of it
PageAddsNode ==
  /\ pc = "ready"
  /\ Cardinality(NodeIds(doc)) < MaxNodes
  /\ \E n \in AddedNodes :
       LET id == Cardinality(NodeIds(doc)) + 1
       IN  /\ doc' = Append(doc, TextNode(id, n.added, n.tag, n.nodeValue))
           /\ records' = IF observer THEN Append(records, id) ELSE records
  /\ UNCHANGED callVars
  /\ UNCHANGED <<timestampCount, observer, scanTimeout, scanned, badge, pc>>
  /\ UNCHANGED <<listening, stored, events, calls>>

\* the MutationObserver's callback, on the records queued since the last one:
\* clearTimeout(scanTimeout), and a new timer whose closure holds these
\* records only
ObserverCallback ==
  /\ records # <<>>
  /\ scanTimeout' = [k |-> "timer", mutations |-> records]
  /\ records' = <<>>
  /\ UNCHANGED callVars
  /\ UNCHANGED <<doc, timestampCount, observer, scanned, badge, pc>>
  /\ UNCHANGED <<listening, stored, events, calls>>

\* the timer's handler, scanDelay after the last callback (a callback that
\* is due runs first: it is a microtask).  The fragments it puts into the
\* document are themselves mutations under document.body.
ScanTimeoutFires ==
  /\ scanTimeout.k = "timer"
  /\ records = <<>>
  /\ Scanned("scanTimeout",
             HandleMutations(PageState(doc, lastIndex, timestampCount,
                                       settings.displayMode),
                             scanTimeout.mutations, 1))
  /\ records' = IF doc' # doc /\ observer THEN <<0>> ELSE <<>>
  /\ scanned' = scanned \cup {id \in Range(scanTimeout.mutations) : id # 0}
  /\ scanTimeout' = Null
  /\ UNCHANGED <<arg, text, now, firstScan, settings, firstConvert>>
  /\ UNCHANGED <<observer, pc, listening, stored, events, calls>>

NextPage ==
  \/ init
  \/ PageAddsNode
  \/ ObserverCallback
  \/ ScanTimeoutFires

SpecPage == InitPage /\ [][NextPage]_vars

----------------------------------------------------------------------------
(* What the claims say, in terms of numerals rather than of the arithmetic  *)
(* the code does                                                            *)

\* a <= b for two decimal numerals of the same length
RECURSIVE NumeralLe(_, _)
NumeralLe(a, b) ==
  IF a = <<>> THEN TRUE
  ELSE IF DigitVal(Head(a)) < DigitVal(Head(b)) THEN TRUE
  ELSE IF DigitVal(Head(a)) > DigitVal(Head(b)) THEN FALSE
  ELSE NumeralLe(Tail(a), Tail(b))

Zeros3 == <<"0", "0", "0">>

\* 946684800 and 4102444800 seconds, as numerals of 10 digits
MinSeconds10 == Chars(<<0, 9, 4, 6, 6, 8, 4, 8, 0, 0>>)
MaxSeconds10 == Chars(<<4, 1, 0, 2, 4, 4, 4, 8, 0, 0>>)

\* the numeral str of 10 digits (seconds) or 13 digits (milliseconds) lies
\* in [946684800000, 4102444800000] ms
InWindow(str) ==
  IF Len(str) = 10
  THEN NumeralLe(MinSeconds10, str) /\ NumeralLe(str, MaxSeconds10)
  ELSE NumeralLe(MinSeconds10 \o Zeros3, str) /\ NumeralLe(str, MaxSeconds10 \o Zeros3)

\* String(v).trim() is 10 or 13 digits and lies in the window
Plausible(v) ==
  LET str == Trim(JSString(v))
  IN  AllDigits(str) /\ Len(str) \in {10, 13} /\ InWindow(str)

ArgIs(s) == arg = StrVal(s)

\* C1 as amended: isValidTimestamp(v) is true if and only if String(v).trim()
\* is exactly 10 or exactly 13 digits and its value in ms (times 1000 for 10
\* digits) lies in [946684800000, 4102444800000], bounds included:
\* "4102444800" and "0946684800" are accepted, "4102444801" and the 9-digit
\* "946684800" are rejected, as is every input of 5, 9 or 11 digits.
C1_ValidIffTenOrThirteenDigitsInWindow ==
  ret.op = "isValidTimestamp" =>
    /\ ret.val = Plausible(arg)
    /\ ArgIs(MaxSeconds10) => ret.val
    /\ ArgIs(MinSeconds10) => ret.val
    /\ ArgIs(Chars(<<4, 1, 0, 2, 4, 4, 4, 8, 0, 1>>)) => ~ret.val
    /\ ArgIs(Chars(<<9, 4, 6, 6, 8, 4, 8, 0, 0>>)) => ~ret.val
    /\ (AllDigits(Trim(JSString(arg))) /\ Len(Trim(JSString(arg))) \in {5, 9, 11})
         => ~ret.val

\* C1 as stated: the same equivalence, with "946684800" (which has 9
\* digits) accepted
C1_Original_NineDigitMinimumAccepted ==
  ret.op = "isValidTimestamp" =>
    /\ ret.val = Plausible(arg)
    /\ ArgIs(Chars(<<9, 4, 6, 6, 8, 4, 8, 0, 0>>)) => ret.val
    /\ ArgIs(MaxSeconds10) => ret.val
    /\ ArgIs(Chars(<<4, 1, 0, 2, 4, 4, 4, 8, 0, 1>>)) => ~ret.val
    /\ (AllDigits(Trim(JSString(arg))) /\ Len(Trim(JSString(arg))) \in {5, 9, 11})
         => ~ret.val

\* isValidTimestamp has accepted the upper bound of the window, padded with
\* white space
C1_Witness ==
  /\ ret.op = "isValidTimestamp"
  /\ arg = StrVal(<<" ">> \o MaxSeconds10 \o <<" ">>)
  /\ ret.val

\* C2: convert returns a result record for every value, and for a value
\* that fails isValidTimestamp the record has success = false, the reason
\* "Invalid timestamp" and the raw value.
C2_ConvertReturnsFailureRecord ==
  ret.op = "convert" =>
    /\ "success" \in DOMAIN ret.val
    /\ ret.val.success \in BOOLEAN
    /\ ~isValidTimestamp(arg) =>
         /\ ret.val.success = FALSE
         /\ "error" \in DOMAIN ret.val /\ ret.val.error = "Invalid timestamp"
         /\ "original" \in DOMAIN ret.val /\ ret.val.original = arg

\* convert has refused a string that is no number, and one out of range
C2_Witness ==
  /\ ret.op = "convert"
  /\ arg \in {StrVal(<<"i", "d", "-">>), StrVal(Chars(<<4, 1, 0, 2, 4, 4, 4, 8, 0, 1>>))}
  /\ ret.val.success = FALSE

\* C3: in a successful result isSeconds is true exactly when the trimmed
\* value has 10 digits, exactly when milliseconds = 1000 * Number(value);
\* it is false exactly when the value has 13 digits and milliseconds =
\* Number(value).
C3_IsSecondsFollowsDigitCount ==
  (ret.op = "convert" /\ ret.val.success) =>
    LET str == Trim(JSString(arg))
    IN  /\ ret.val.isSeconds <=> Len(str) = 10
        /\ ret.val.isSeconds <=> ret.val.milliseconds = Times1000(JSNumber(arg))
        /\ ~ret.val.isSeconds <=>
             (Len(str) = 13 /\ ret.val.milliseconds = JSNumber(arg))

\* convert has accepted a 10-digit value with white space around it
C3_Witness ==
  /\ ret.op = "convert"
  /\ arg = StrVal(<<" ">> \o Instant)
  /\ ret.val.success

\* C4: for a numeral s of 10 digits in the window toMilliseconds(s) is
\* Number(s) * 1000 (the numeral of the result is s, without leading zeros,
\* followed by 000), and for one of 13 digits it is Number(s).
C4_ToMillisecondsByDigitCount ==
  (ret.op = "toMilliseconds" /\ arg.t = "string" /\ AllDigits(arg.s)
     /\ Len(arg.s) \in {10, 13} /\ InWindow(arg.s)) =>
    /\ ret.val.k = "num" /\ ~ret.val.neg /\ ret.val.frac = <<>>
    /\ BigToDigits(ret.val.mag) =
         IF Len(arg.s) = 10 THEN StripLeadingZeros(arg.s) \o Zeros3
         ELSE StripLeadingZeros(arg.s)

\* toMilliseconds has scaled the 10-digit 1701792000 to 1701792000000
C4_Witness ==
  /\ ret.op = "toMilliseconds"
  /\ arg = StrVal(Instant)
  /\ ret.val = IntNum(Big(1701792, 0))

----------------------------------------------------------------------------
(* findTimestamps *)

\* the n characters after offset p are digits, and the run ends there on
\* both sides
MaximalRun(p, n) ==
  /\ DigitsAt(text, p, n)
  /\ p = 0 \/ text[p] \notin Digit
  /\ p + n = Len(text) \/ text[p + n + 1] \notin Digit

\* the n characters after offset p have no letter, digit or underscore next
\* to them
WordBounded(p, n) ==
  /\ p = 0 \/ text[p] \notin WordChar
  /\ p + n = Len(text) \/ text[p + n + 1] \notin WordChar

Reported(p, n) ==
  \E i \in 1..Len(ret.val) :
    /\ ret.val[i].index = p
    /\ ret.val[i].length = n
    /\ ret.val[i].value = SubSeq(text, p + 1, p + n)

\* "ts=1701792000 done"
ExampleText == <<"t", "s", "=">> \o Instant \o <<" ", "d", "o", "n", "e">>

ExampleReported ==
  text = ExampleText =>
    /\ Len(ret.val) = 1
    /\ ret.val[1].value = Instant /\ ret.val[1].index = 3 /\ ret.val[1].length = 10

\* C5: every candidate of findTimestamps(text) is text[index, index+length),
\* a run of exactly 10 or 13 digits with no digit just before or after it,
\* and lies in the window: no run of another length and no match that fails
\* the range validation is reported.
C5_CandidatesAreSound ==
  ret.op = "findTimestamps" =>
    \A i \in 1..Len(ret.val) :
      LET c == ret.val[i]
      IN  /\ c.index >= 0 /\ c.index + c.length <= Len(text)
          /\ c.value = SubSeq(text, c.index + 1, c.index + c.length)
          /\ c.length \in {10, 13}
          /\ MaximalRun(c.index, c.length)
          /\ Plausible(StrVal(c.value))
          /\ isValidTimestamp(StrVal(c.value))

\* findTimestamps has reported the timestamp of "1701792000 4102444801" and
\* left out the match that is out of range
C5_Witness ==
  /\ ret.op = "findTimestamps"
  /\ text = Instant \o <<" ">> \o Chars(<<4, 1, 0, 2, 4, 4, 4, 8, 0, 1>>)
  /\ Len(ret.val) = 1
  /\ ret.val[1].index = 0

\* C6 as amended: every run of exactly 10 or 13 digits that has, on each
\* side, a character other than a letter, a digit or an underscore, or the
\* start or end of the text, and that lies in the window, is reported with
\* its offset and length; "ts=1701792000 done" gives the one candidate
\* 1701792000 at index 3 of length 10.
C6_WordBoundedRunsAreReported ==
  ret.op = "findTimestamps" =>
    /\ \A p \in 0..Len(text), n \in {10, 13} :
         (DigitsAt(text, p, n) /\ WordBounded(p, n)
            /\ Plausible(StrVal(SubSeq(text, p + 1, p + n))))
           => Reported(p, n)
    /\ ExampleReported

\* C6 as stated: every maximal run of exactly 10 or 13 digits, with a
\* non-digit or the start or end of the text on each side, that lies in the
\* window is reported.
C6_Original_MaximalDigitRunsAreReported ==
  ret.op = "findTimestamps" =>
    /\ \A p \in 0..Len(text), n \in {10, 13} :
         (MaximalRun(p, n) /\ Plausible(StrVal(SubSeq(text, p + 1, p + n))))
           => Reported(p, n)
    /\ ExampleReported

\* findTimestamps has scanned the example text
C6_Witness ==
  /\ ret.op = "findTimestamps"
  /\ text = ExampleText
  /\ Len(ret.val) = 1

\* C7: the candidates are in text order and do not overlap, and a call
\* returns what the first call on the text returned, whatever
\* TIMESTAMP_REGEX.test has left in the shared lastIndex in between.
C7_OrderedDisjointRestartable ==
  ret.op = "findTimestamps" =>
    /\ \A i \in 1..(Len(ret.val) - 1) :
         ret.val[i].index + ret.val[i].length <= ret.val[i + 1].index
    /\ ret.val = firstScan.val

\* findTimestamps has found two timestamps while the shared regex stood
\* after the first one
C7_Witness ==
  /\ ret.op = "findTimestamps"
  /\ lastIndex > 0
  /\ Len(ret.val) = 2

----------------------------------------------------------------------------
(* Relative formatting, of the instant 1701792000 *)

\* the last call rendered the instant in the relative dialect
HasRelative ==
  \/ ret.op = "formatDate" /\ Opt(ret.options, "format", "locale") = "relative"
  \/ ret.op = "convert" /\ ret.val.success

RelativeText == IF ret.op = "formatDate" THEN ret.val ELSE ret.val.relative

IsPast == BigLt(InstantMs, now)

IsFuture == BigLt(now, InstantMs)

\* |now - instant| in ms, and in whole seconds and days
AbsDiffMs == IF IsPast THEN BigSub(now, InstantMs) ELSE BigSub(InstantMs, now)

AbsSeconds == BigToInt(BigDivSmall(AbsDiffMs, 1000))

AbsDays == AbsSeconds \div 86400

\* the rung of the ladder, by its thresholds: 60 s, 60 min, 24 h, 7 d,
\* 4 weeks (28 d), 12 months of 30 d (360 d)
LadderUnit ==
  IF AbsSeconds < 60 THEN "second"
  ELSE IF AbsSeconds < 3600 THEN "minute"
  ELSE IF AbsSeconds < 86400 THEN "hour"
  ELSE IF AbsDays < 7 THEN "day"
  ELSE IF AbsDays < 28 THEN "week"
  ELSE IF AbsDays < 360 THEN "month"
  ELSE "year"

LadderN ==
  CASE LadderUnit = "second" -> AbsSeconds
    [] LadderUnit = "minute" -> AbsSeconds \div 60
    [] LadderUnit = "hour"   -> AbsSeconds \div 3600
    [] LadderUnit = "day"    -> AbsDays
    [] LadderUnit = "week"   -> AbsDays \div 7
    [] LadderUnit = "month"  -> AbsDays \div 30
    [] LadderUnit = "year"   -> AbsDays \div 365

\* "<n> <unit>[s]", the unit in the plural exactly when n # 1
Quantity == ToString(LadderN) \o " " \o LadderUnit \o (IF LadderN # 1 THEN "s" ELSE "")

LadderUnits == {"second", "minute", "hour", "day", "week", "month", "year"}

\* the renderings that print the number 0 or no number at all
ZeroTexts ==
  {"just now"} \cup {"in 0 " \o u \o "s" : u \in LadderUnits}
               \cup {"0 " \o u \o "s ago" : u \in LadderUnits}

\* C8: a difference of exactly 0 ms is rendered "just now", and "just now"
\* is rendered only for an instant less than one second from now.
C8_JustNowIffWithinOneSecond ==
  HasRelative =>
    /\ now = InstantMs => RelativeText = "just now"
    /\ RelativeText = "just now" => AbsSeconds = 0

\* the instant has been rendered at the very moment it denotes
C8_Witness == HasRelative /\ now = InstantMs

\* C9: for an instant at least one second away the number printed is the
\* non-zero magnitude of the chosen unit, never 0.
C9_PrintedNumberIsNeverZero ==
  (HasRelative /\ AbsSeconds >= 1) => RelativeText \notin ZeroTexts

\* the instant has been rendered 28 days after it
C9_Witness == HasRelative /\ IsPast /\ AbsDays = 28

----------------------------------------------------------------------------
(* The custom dialect *)

\* the last call was formatDate in the custom dialect, on a Date, in a time
\* zone the platform knows
CustomCall ==
  /\ ret.op = "formatDate"
  /\ Opt(ret.options, "format", "locale") = "custom"
  /\ toDate(arg).k = "date"
  /\ Opt(ret.options, "timezone", "local") \in KnownTimeZones \cup {"local"}

CustomPattern == Opt(ret.options, "customFormat", DefaultCustomFormat)

\* the date parts the last custom call was made on
CustomParts == _getDateParts(toDate(arg), Opt(ret.options, "timezone", "local"))

\* the token keys, whatever their order (they are the same for every date)
TokenKeySet ==
  LET table == tokens(_getDateParts(NewDate(InstantMs), "UTC"))
  IN  {table[i].token : i \in 1..Len(table)}

\* the length of the longest token that starts the pattern, or 0
LongestTokenAt(pattern) ==
  LET ns == {n \in 1..4 : n <= Len(pattern) /\ SubSeq(pattern, 1, n) \in TokenKeySet}
  IN  IF ns = {} THEN 0 ELSE CHOOSE n \in ns : \A k \in ns : k <= n

\* a left-to-right longest-match tokenizer: one pass over the pattern, each
\* token replaced by its value, every other character copied
RECURSIVE Tokenize(_, _)
Tokenize(pattern, table) ==
  IF pattern = <<>> THEN <<>>
  ELSE LET n == LongestTokenAt(pattern)
       IN  IF n = 0 THEN <<Head(pattern)>> \o Tokenize(Tail(pattern), table)
           ELSE TokenValue(table, SubSeq(pattern, 1, n))
                \o Tokenize(SubSeq(pattern, n + 1, Len(pattern)), table)

\* C11: the output of _formatCustom equals that of a left-to-right
\* longest-match tokenizer over the pattern: the text put in for one token is
\* never altered by the substitution of another.
C11_SubstitutionIsSinglePass ==
  CustomCall => ret.val = Text(Tokenize(CustomPattern, tokens(CustomParts)))

\* the pattern "MMMM" has been formatted for an instant in December
C11_Witness ==
  /\ CustomCall
  /\ CustomPattern = <<"M", "M", "M", "M">>
  /\ CustomParts.month = 12

\* t occurs in s
Contains(s, t) ==
  \E i \in 1..(Len(s) - Len(t) + 1) : SubSeq(s, i, i + Len(t) - 1) = t

\* <<short, long>>: two tokens, the first a proper substring of the second
\* (YY in YYYY, M in MM, MMM in MMMM, D in DD, ...)
TokenPairs ==
  {pair \in TokenKeySet \X TokenKeySet :
     Len(pair[1]) < Len(pair[2]) /\ Contains(pair[2], pair[1])}

\* the place of a token in the order the loop takes the tokens in
Position(sorted, token) == CHOOSE i \in 1..Len(sorted) : sorted[i] = token

\* the tokens whose value is a numeral
NumeralTokens == {token \in TokenKeySet : Head(token) \in {"Y", "D", "H", "h", "m", "s", "S"}}
                 \cup {<<"M">>, <<"M", "M">>}

\* C12: tokens are processed longest first: of two tokens one of which is a
\* substring of the other, the longer is applied before the shorter and none
\* of its occurrences is left when its turn is over, so that a pattern that is
\* one token with a numeric value (YYYY, MM, DD, HH, hh, mm, ss, ...) is
\* rendered as that token's value: YYYY is never two 2-digit years.
C12_LongestTokenFirst ==
  CustomCall =>
    LET table  == tokens(CustomParts)
        sorted == sortedTokens(table)
    IN  /\ \A pair \in TokenPairs :
             /\ Position(sorted, pair[2]) < Position(sorted, pair[1])
             /\ ~Contains(ReplaceTokens(CustomPattern,
                                        SubSeq(sorted, 1, Position(sorted, pair[2])),
                                        table, 1),
                          pair[2])
        /\ CustomPattern \in NumeralTokens
             => ret.val = Text(TokenValue(table, CustomPattern))

\* the pattern "YYYY" has been rendered as the 4-digit year
C12_Witness ==
  /\ CustomCall
  /\ CustomPattern = <<"Y", "Y", "Y", "Y">>
  /\ ret.val = Text(IntToDigits(CustomParts.year))
  /\ Len(IntToDigits(CustomParts.year)) = 4

\* the six numeric tokens of the claim
SixTokens ==
  { <<"Y", "Y", "Y", "Y">>, <<"M", "M">>, <<"D", "D">>,
    <<"H", "H">>, <<"m", "m">>, <<"s", "s">> }

\* the pattern is made of the six tokens and of characters that are no
\* letters: reading it from the left, longest token first, finds nothing else
RECURSIVE IsNumericPattern(_)
IsNumericPattern(p) ==
  \/ p = <<>>
  \/ /\ p # <<>>
     /\ LongestTokenAt(p) > 0
     /\ SubSeq(p, 1, LongestTokenAt(p)) \in SixTokens
     /\ IsNumericPattern(SubSeq(p, LongestTokenAt(p) + 1, Len(p)))
  \/ /\ p # <<>>
     /\ LongestTokenAt(p) = 0
     /\ Head(p) \notin Letter
     /\ IsNumericPattern(Tail(p))

IsLeapYear(y) == y % 4 = 0 /\ (y % 100 # 0 \/ y % 400 = 0)

DaysInMonth(y, m) ==
  IF m = 2 THEN (IF IsLeapYear(y) THEN 29 ELSE 28)
  ELSE IF m \in {4, 6, 9, 11} THEN 30 ELSE 31

\* the leap years up to and including year n
LeapYearsTo(n) == n \div 4 - n \div 100 + n \div 400

RECURSIVE DaysBeforeMonth(_, _)
DaysBeforeMonth(y, m) ==
  IF m = 1 THEN 0 ELSE DaysBeforeMonth(y, m - 1) + DaysInMonth(y, m - 1)

\* the days from 1970-01-01 to the day y-m-d, counted forward
DaysFromCivil(y, m, d) ==
  365 * (y - 1970) + (LeapYearsTo(y - 1) - LeapYearsTo(1969))
  + DaysBeforeMonth(y, m) + (d - 1)

\* the calendar fields are those of the instant on the wall clock of the zone:
\* a date and a time of day that lie offset seconds after the instant's UTC
FieldsAreOfInstant(f, seconds, offsetMinutes) ==
  /\ f.month \in 1..12
  /\ f.day \in 1..DaysInMonth(f.year, f.month)
  /\ f.hour \in 0..23 /\ f.minute \in 0..59 /\ f.second \in 0..59
  /\ DaysFromCivil(f.year, f.month, f.day) * 86400
       + f.hour * 3600 + f.minute * 60 + f.second
     = seconds + offsetMinutes * 60

\* the zero-padded field a numeric token stands for
FieldText(token, f) ==
  CASE token = <<"Y", "Y", "Y", "Y">> -> PadStart(IntToDigits(f.year), 4)
    [] token = <<"M", "M">> -> PadStart(IntToDigits(f.month), 2)
    [] token = <<"D", "D">> -> PadStart(IntToDigits(f.day), 2)
    [] token = <<"H", "H">> -> PadStart(IntToDigits(f.hour), 2)
    [] token = <<"m", "m">> -> PadStart(IntToDigits(f.minute), 2)
    [] token = <<"s", "s">> -> PadStart(IntToDigits(f.second), 2)

\* a numeric pattern with every token replaced by its field
RECURSIVE FieldsFor(_, _)
FieldsFor(p, f) ==
  IF p = <<>> THEN <<>>
  ELSE IF LongestTokenAt(p) > 0
  THEN FieldText(SubSeq(p, 1, LongestTokenAt(p)), f)
       \o FieldsFor(SubSeq(p, LongestTokenAt(p) + 1, Len(p)), f)
  ELSE <<Head(p)>> \o FieldsFor(Tail(p), f)

\* the offset of the zone the last call formatted in
CustomOffsetMinutes ==
  LET timezone == Opt(ret.options, "timezone", "local")
  IN  TimeZoneOffsetMinutes(IF timezone = "local" THEN LocalTimeZone ELSE timezone)

C13_IsExample ==
  /\ CustomCall
  /\ arg = StrVal(Instant)
  /\ Opt(ret.options, "timezone", "local") = "UTC"
  /\ CustomPattern = DefaultCustomFormat

\* C13: 1701792000 in "UTC" with "YYYY-MM-DD HH:mm:ss" is rendered
\* "2023-12-05 16:00:00"; a pattern of the six numeric tokens and non-letter
\* separators is rendered with each token replaced by the zero-padded
\* calendar field of the instant in the target time zone.
C13_NumericTokensAreCalendarFields ==
  /\ C13_IsExample => ret.val = "2023-12-05 16:00:00"
  /\ CustomCall /\ IsNumericPattern(CustomPattern) =>
       LET fields == CustomParts
       IN  /\ FieldsAreOfInstant(fields,
                                 BigToInt(BigDivSmall(toDate(arg).time, 1000)),
                                 CustomOffsetMinutes)
           /\ ret.val = Text(FieldsFor(CustomPattern, fields))

\* the example has been formatted
C13_Witness == C13_IsExample /\ ret.val = "2023-12-05 16:00:00"

----------------------------------------------------------------------------
(* formatDate as a whole *)

FormatDateCall == ret.op = "formatDate"

\* the last formatDate was asked for a time zone the platform does not know
UnknownTimeZone ==
  Opt(ret.options, "timezone", "local") \notin KnownTimeZones \cup {"local"}

\* the platform's default rendering: date.toLocaleString()
DefaultRendering == toLocaleString(toDate(arg), "local", "default")

\* C14 as amended: formatDate returns a string and never throws; no Date
\* gives "Invalid Date"; an unrecognized time zone gives the platform's
\* default rendering in the locale, iso and custom dialects, and is ignored by
\* the relative dialect, which returns the relative string.
C14_FormatDateNeverThrows ==
  FormatDateCall =>
    /\ ret.completion = "return"
    /\ toDate(arg).k = "null" => ret.val = "Invalid Date"
    /\ toDate(arg).k = "date" /\ UnknownTimeZone =>
         IF Opt(ret.options, "format", "locale") = "relative"
         THEN ret.val = _formatRelative(toDate(arg))
         ELSE ret.val = DefaultRendering

\* C14 as stated: an unrecognized time zone gives the platform's default
\* rendering in every dialect, the relative one included.
C14_Original_UnknownZoneFallsBackInEveryDialect ==
  FormatDateCall =>
    /\ ret.completion = "return"
    /\ toDate(arg).k = "null" => ret.val = "Invalid Date"
    /\ toDate(arg).k = "date" /\ UnknownTimeZone => ret.val = DefaultRendering

\* the custom dialect has fallen back to the default rendering for a time zone
\* the platform does not know
C14_Witness ==
  /\ FormatDateCall
  /\ toDate(arg).k = "date"
  /\ UnknownTimeZone
  /\ Opt(ret.options, "format", "locale") = "custom"
  /\ ret.val = DefaultRendering

----------------------------------------------------------------------------
(* The result records of convert and convertTimestamp *)

\* the last call was a conversion, and it failed
FailedConversion ==
  /\ ret.op \in {"convert", "convertTimestamp"}
  /\ ret.val.success = FALSE

\* the fields of a successful conversion that a failed one must not have
ResultFields ==
  {"milliseconds", "seconds", "isSeconds", "date", "formatted",
   "secondaryFormatted", "relative"}

\* C15 as amended: a failed conversion carries success = false and the error
\* reason and none of the fields of a result; Converter.convert adds the
\* original raw value and nothing else, convertTimestamp adds nothing.
C15_FailureCarriesNoResultField ==
  FailedConversion =>
    /\ ret.val.error = "Invalid timestamp"
    /\ DOMAIN ret.val \cap ResultFields = {}
    /\ ret.op = "convert" =>
         DOMAIN ret.val = {"success", "error", "original"} /\ ret.val.original = arg
    /\ ret.op = "convertTimestamp" => DOMAIN ret.val = {"success", "error"}

\* C15 as stated: a failed conversion has the fields success and error and no
\* other field.
C15_Original_OnlySuccessAndError ==
  FailedConversion =>
    /\ ret.val.error = "Invalid timestamp"
    /\ DOMAIN ret.val = {"success", "error"}

\* Converter.convert has failed on an 11-digit value
C15_Witness ==
  /\ FailedConversion
  /\ ret.op = "convert"
  /\ arg = StrVal(Chars(<<1, 7, 0, 1, 7, 9, 2, 0, 0, 0>>) \o <<"0">>)

\* the last call was Converter.convert, and it succeeded
SuccessfulConvert == ret.op = "convert" /\ ret.val.success = TRUE

ShowSecondary == Opt(ret.options, "showSecondaryTimezone", FALSE)

\* C16 as amended: a successful convert result contains the relative string,
\* and contains a secondary rendering (the instant formatted with the same
\* options in the secondary time zone) if and only if showSecondaryTimezone is
\* set and secondaryTimezone names a zone (is not empty).
C16_RelativeAlwaysSecondaryWhenAsked ==
  SuccessfulConvert =>
    /\ "relative" \in DOMAIN ret.val
    /\ ret.val.relative = _formatRelative(toDate(arg))
    /\ "secondaryFormatted" \in DOMAIN ret.val
         <=> ShowSecondary /\ Opt(ret.options, "secondaryTimezone", "") # ""
    /\ "secondaryFormatted" \in DOMAIN ret.val =>
         ret.val.secondaryFormatted
           = formatDate(toDate(arg),
                        [ret.options EXCEPT !.timezone = ret.options.secondaryTimezone]).value

\* C16 as stated: a successful convert result contains the relative string,
\* and a secondary rendering if and only if showSecondaryTimezone is set.
C16_Original_SecondaryIffFlag ==
  SuccessfulConvert =>
    /\ "relative" \in DOMAIN ret.val
    /\ "secondaryFormatted" \in DOMAIN ret.val <=> ShowSecondary

\* a conversion has succeeded with the secondary rendering asked for and given
C16_Witness ==
  /\ SuccessfulConvert
  /\ ShowSecondary
  /\ "secondaryFormatted" \in DOMAIN ret.val

----------------------------------------------------------------------------
(* The 12-hour clock *)

\* the 12-hour hour as the claim gives it: 0 -> 12, 1..12 -> h, 13..23 -> h - 12
ClaimedHour12(h) ==
  CASE h = 0 -> 12
    [] h \in 1..12 -> h
    [] h \in 13..23 -> h - 12

\* C17: for the hour h of the wall clock, h in 0..23, the 12-hour hour is 12
\* for 0, h for 1..12 and h - 12 for 13..23; it lies in 1..12; the marker is
\* am iff h < 12; the 12-hour hour and the marker determine h; the pattern
\* "hh:mm a" renders them; the preview of the options page computes the same.
C17_TwelveHourClock ==
  CustomCall =>
    LET parts == CustomParts
        h     == parts.hour
    IN  /\ h \in 0..23
        /\ parts.hour12 = ClaimedHour12(h)
        /\ parts.hour12 \in 1..12
        /\ parts.ampm = (IF h < 12 THEN <<"a", "m">> ELSE <<"p", "m">>)
        /\ \A g \in 0..23 :
             hour12(g) = parts.hour12 /\ ampm(g) = parts.ampm => g = h
        /\ formatCustom_hour12(h) = parts.hour12 /\ formatCustom_a(h) = parts.ampm
        /\ CustomPattern = <<"h", "h", ":", "m", "m", " ", "a">> =>
             ret.val = Text(PadStart(IntToDigits(ClaimedHour12(h)), 2) \o <<":">>
                            \o PadStart(IntToDigits(parts.minute), 2) \o <<" ">>
                            \o (IF h < 12 THEN <<"a", "m">> ELSE <<"p", "m">>))

\* noon has been rendered on the 12-hour clock
C17_Witness ==
  /\ CustomCall
  /\ CustomPattern = <<"h", "h", ":", "m", "m", " ", "a">>
  /\ CustomParts.hour = 12
  /\ ret.val = "12:01 pm"

----------------------------------------------------------------------------
(* Hidden state *)

\* C18: convert called again with the same value and options at the same
\* clock reading returns what the first call returned, whatever calls of
\* convert, findTimestamps, isValidTimestamp and TIMESTAMP_REGEX.test were
\* made in between and whatever lastIndex they left in the shared regex.
C18_ConvertIsRepeatable ==
  ret.op = "convert" => firstConvert.op = "convert" /\ ret.val = firstConvert.val

\* convert has returned a result at lastIndex 0 and, after findTimestamps and
\* TIMESTAMP_REGEX.test, again at a lastIndex other than 0
C18_Witness ==
  /\ ret.op = "convert"
  /\ ret.val.success = TRUE
  /\ firstConvert.op = "convert" /\ firstConvert.lastIndex = 0
  /\ lastIndex > 0
  /\ firstScan.op = "findTimestamps"
----------------------------------------------------------------------------
(* C19, C20: the page scan and the mutation observer *)

\* the texts the timestamp wrappers of node id hold, in document order
RECURSIVE WrappedValues(_, _, _)
WrappedValues(nodes, id, i) ==
  IF i > Len(nodes) THEN <<>>
  ELSE (IF nodes[i].id = id /\ nodes[i].wraps > 0
        THEN <<nodes[i].nodeValue>> ELSE <<>>)
       \o WrappedValues(nodes, id, i + 1)

\* the texts findTimestamps reports in a text
ReportedValues(text_) ==
  LET timestamps == findTimestamps(text_)
  IN  [k \in 1..Len(timestamps) |-> timestamps[k].value]

\* every timestamp of the i-th text node of the scanned document is wrapped
AllWrapped(before, after, i) ==
  WrappedValues(after, before[i].id, 1) = ReportedValues(before[i].nodeValue)

\* C19: after scanPage on a document without wrappers, every timestamp that
\* findTimestamps reports in a text node whose parent is not a skip element
\* is wrapped, whatever text nodes the tree walker visited before it.
C19_ScanPageWrapsEveryTimestamp ==
  ret.op = "scanPage" =>
    \A i \in 1..Len(ret.before) :
      ret.before[i].tag \notin SKIP_ELEMENTS => AllWrapped(ret.before, ret.after, i)

\* a scan that visited a text node with a timestamp after another node that
\* the filter has tested, and wrapped the timestamp
C19_Witness ==
  /\ ret.op = "scanPage"
  /\ Len(ret.before) = 2
  /\ \A i \in 1..2 : ret.before[i].tag \notin SKIP_ELEMENTS
  /\ ReportedValues(ret.before[2].nodeValue) # <<>>
  /\ AllWrapped(ret.before, ret.after, 2)

\* the observer is idle: no record is queued and no timer is pending
ObserverIdle == pc = "ready" /\ records = <<>> /\ scanTimeout.k # "timer"

\* C20: with the extension enabled and autoScan on, once mutations have
\* stopped and the observer is idle, every node that was added under
\* document.body has been scanned, the nodes of a batch whose timer a later
\* batch cancelled included.
C20_AddedNodesAreScanned ==
  (settings.enabled /\ settings.autoScan /\ ObserverIdle)
    => AddedIds(doc) \subseteq scanned

\* two nodes were added, and the observer came to rest having scanned both
C20_Witness ==
  /\ settings.enabled /\ settings.autoScan /\ ObserverIdle
  /\ Cardinality(AddedIds(doc)) = 2
  /\ AddedIds(doc) \subseteq scanned
----------------------------------------------------------------------------
(* SpecSettings: one page, the page's own script and the user.  After the   *)
(* content script has loaded, the user changes the settings (the popup and  *)
(* the options page save them, and the popup sends them to the tab), and    *)
(* the page removes and re-inserts nodes.                                   *)

\* at most this many times the user changes the settings or the page removes
\* or re-inserts a node
MaxEvents == 3

\* { ...a, ...b }
Spread(a, b) ==
  [k \in DOMAIN a \cup DOMAIN b |-> IF k \in DOMAIN b THEN b[k] ELSE a[k]]

\* the settings the user chooses from: those of PageSettings, and the inline
\* display mode
SettingsChoices ==
  PageSettings \cup
  { [enabled |-> TRUE, autoScan |-> TRUE, showBadgeCount |-> TRUE,
     displayMode |-> "inline"] }

\* the documents the script loads into
LoadedDocs == Docs(1)

InitSettings ==
  /\ arg = StrVal(Instant)
  /\ text = <<>>
  /\ now = Clock0
  /\ lastIndex = 0
  /\ ret = None
  /\ firstScan = None
  /\ settings \in SettingsChoices
  /\ firstConvert = None
  /\ doc \in LoadedDocs
  /\ timestampCount = 0
  /\ observer = FALSE
  /\ records = <<>>
  /\ scanTimeout = Null
  /\ scanned = {}
  /\ badge = 0
  /\ pc = "loading"
  /\ listening = FALSE
  /\ stored = settings
  /\ events = 0
  /\ calls = <<>>

\* cleanup() that takes the wrapper's class away and leaves its spans: the
\* -badge span stays in the document
cleanup_leavesBadge(nodes) ==
  [i \in 1..Len(nodes) |->
     IF nodes[i].wraps > 0
     THEN [nodes[i] EXCEPT !.wraps = 0, !.restored = TRUE]
     ELSE nodes[i]]

\* cleanup() on the document: every .epochlens-timestamp element is replaced
\* by a text node of its dataset.epochlensTimestamp (a wrapper inside a
\* wrapper goes with the outer one)
cleanup(nodes) ==
  [i \in 1..Len(nodes) |->
     IF nodes[i].wraps > 0
     THEN [nodes[i] EXCEPT !.wraps = 0, !.badges = 0, !.restored = TRUE]
     ELSE nodes[i]]

\* updateBadge() under the settings set
updateBadgeWith(set, count) == IF set.showBadgeCount THEN count ELSE badge

\* the scan a handler has made before ret, if that was the last thing done
LastScan ==
  IF ret.op = "scanPage"
  THEN [op |-> "scanPage", before |-> ret.before, after |-> ret.after]
  ELSE IF ret.op \in {"onSettingsChange", "UPDATE_SETTINGS"}
  THEN IF ret.did \in {"scanPage", "cleanup+scanPage"}
       THEN [op |-> "scanPage", before |-> ret.before, after |-> ret.after]
       ELSE None
  ELSE None

\* a handler under the new settings set has run scanPage() on the document
\* before, which left the state s, and setupMutationObserver()
Rescanned(op, did, set, before, s) ==
  /\ doc' = s.doc
  /\ lastIndex' = s.lastIndex
  /\ timestampCount' = s.timestampCount
  /\ badge' = updateBadgeWith(set, s.timestampCount)
  /\ observer' = set.autoScan
  /\ records' = <<>>
  /\ ret' = [op |-> op, settings |-> set, did |-> did,
             before |-> before, after |-> s.doc]

\* a handler under the new settings set has run cleanup() only: the wrappers
\* go, timestampCount = 0, updateBadge(), observer.disconnect() (which
\* empties the observer's record queue); scanTimeout is left as it is
Cleaned(op, set) ==
  /\ doc' = cleanup(doc)
  /\ timestampCount' = 0
  /\ badge' = updateBadgeWith(set, 0)
  /\ observer' = FALSE
  /\ records' = <<>>
  /\ ret' = [op |-> op, settings |-> set, did |-> "cleanup",
             scan |-> LastScan, before |-> doc, after |-> cleanup(doc)]
  /\ UNCHANGED lastIndex

\* the callback init() gives Storage.onSettingsChange, on newSettings
SettingsChanged(newSettings) ==
  /\ settings' = newSettings
  /\ IF ~settings.enabled /\ newSettings.enabled
     THEN Rescanned("onSettingsChange", "scanPage", newSettings, doc,
                    scanPage(doc, lastIndex, newSettings.displayMode))
     ELSE IF settings.enabled /\ ~newSettings.enabled
     THEN Cleaned("onSettingsChange", newSettings)
     ELSE IF newSettings.enabled
     THEN Rescanned("onSettingsChange", "cleanup+scanPage", newSettings,
                    cleanup(doc),
                    scanPage(cleanup(doc), lastIndex, newSettings.displayMode))
     ELSE /\ ret' = [op |-> "onSettingsChange", settings |-> newSettings,
                     did |-> "none"]
          /\ UNCHANGED <<doc, lastIndex, timestampCount, badge, observer, records>>

\* case UPDATE_SETTINGS of handleMessage, the settings merged
SettingsUpdated(merged) ==
  /\ settings' = merged
  /\ IF merged.enabled
     THEN Rescanned("UPDATE_SETTINGS", "cleanup+scanPage", merged, cleanup(doc),
                    scanPage(cleanup(doc), lastIndex, merged.displayMode))
     ELSE Cleaned("UPDATE_SETTINGS", merged)

\* no listener: nothing in the content script runs on the settings set that
\* the event op brings
NotListening(op, set) ==
  /\ ret' = [op |-> op, settings |-> set, did |-> "none"]
  /\ UNCHANGED <<doc, lastIndex, timestampCount, badge, observer, records, settings>>

\* the popup or the options page saves other settings, and
\* chrome.storage.onChanged calls the listener of Storage.onSettingsChange
onSettingsChange ==
  /\ pc = "ready"
  /\ events < MaxEvents
  /\ \E newSettings \in SettingsChoices :
       /\ newSettings.enabled # stored.enabled
          \/ newSettings.autoScan # stored.autoScan
          \/ newSettings.showBadgeCount # stored.showBadgeCount
          \/ newSettings.displayMode # stored.displayMode
       /\ stored' = newSettings
       /\ IF listening THEN SettingsChanged(newSettings)
          ELSE NotListening("onSettingsChange", newSettings)
  /\ events' = events + 1
  /\ UNCHANGED <<arg, text, now, firstScan, firstConvert>>
  /\ UNCHANGED <<scanTimeout, scanned, pc, listening, calls>>

\* the popup sends UPDATE_SETTINGS with its settings to the tab, and
\* chrome.runtime.onMessage calls handleMessage
handleMessage ==
  /\ pc = "ready"
  /\ events < MaxEvents
  /\ \E message \in SettingsChoices :
       IF listening THEN SettingsUpdated(Spread(settings, message))
       ELSE NotListening("UPDATE_SETTINGS", message)
  /\ events' = events + 1
  /\ UNCHANGED <<arg, text, now, firstScan, firstConvert>>
  /\ UNCHANGED <<scanTimeout, scanned, pc, listening, stored, calls>>

\* the nodes without the i-th
Without(nodes, i) == SubSeq(nodes, 1, i - 1) \o SubSeq(nodes, i + 1, Len(nodes))

\* the page removes a wrapper; a connected observer is queued a record that
\* has no added nodes
PageRemovesWrapper ==
  /\ pc = "ready"
  /\ events < MaxEvents
  /\ \E i \in 1..Len(doc) :
       /\ doc[i].wraps > 0
       /\ doc' = Without(doc, i)
  /\ records' = IF observer THEN Append(records, 0) ELSE records
  /\ events' = events + 1
  /\ UNCHANGED callVars
  /\ UNCHANGED <<timestampCount, observer, scanTimeout, scanned, badge, pc>>
  /\ UNCHANGED <<listening, stored, calls>>

\* the nodes of element id, as the nodes of an added element
Reinserted(nodes, id) ==
  LET under == SelectSeq(nodes, LAMBDA n : n.id = id)
  IN  [i \in 1..Len(under) |-> [under[i] EXCEPT !.added = "element"]]

\* the page takes an element with all that is in it out of the document and
\* appends it again; a connected observer is queued a record of it
PageReinsertsElement ==
  /\ pc = "ready"
  /\ events < MaxEvents
  /\ \E id \in NodeIds(doc) :
       /\ AddedAs(doc, id) # "text"
       /\ doc' = SelectSeq(doc, LAMBDA n : n.id # id) \o Reinserted(doc, id)
       /\ records' = IF observer THEN Append(records, id) ELSE records
  /\ events' = events + 1
  /\ UNCHANGED callVars
  /\ UNCHANGED <<timestampCount, observer, scanTimeout, scanned, badge, pc>>
  /\ UNCHANGED <<listening, stored, calls>>

NextSettings ==
  \/ init
  \/ ObserverCallback
  \/ ScanTimeoutFires
  \/ onSettingsChange
  \/ handleMessage
  \/ PageRemovesWrapper
  \/ PageReinsertsElement

SpecSettings == InitSettings /\ [][NextSettings]_vars
----------------------------------------------------------------------------
(* SpecStored: createTimestampElement's call Converter.convert(timestamp,   *)
(* settings), with the settings object as Storage.getSettings() returns it  *)

\* DEFAULT_SETTINGS with these three values
StoredSettingsWith(dateFormat, timezone, showSecondaryTimezone) ==
  [enabled               |-> TRUE,
   displayMode           |-> "tooltip",
   timezone              |-> timezone,
   showSecondaryTimezone |-> showSecondaryTimezone,
   secondaryTimezone     |-> "UTC",
   dateFormat            |-> dateFormat,
   customFormat          |-> DefaultCustomFormat,
   showBadgeCount        |-> TRUE,
   highlightStyle        |-> "dotted",
   autoScan              |-> TRUE,
   scanDelay             |-> 500]

\* the values of the options page's select for the date format
DateFormats == {"locale", "iso", "relative", "custom"}

StoredSettings ==
  { StoredSettingsWith(f, z, b) :
      f \in DateFormats, z \in {"local", "UTC", "Asia/Kolkata"}, b \in BOOLEAN }

\* timestamps as findTimestamps reports them: strings of 10 and of 13 digits
StoredValues ==
  { StrVal(Instant),
    StrVal(Instant \o <<"0", "0", "0">>),
    StrVal(Instant \o <<"0", "4", "2">>),
    StrVal(Chars(<<4, 1, 0, 2, 4, 4, 4, 8, 0, 0>>)),
    StrVal(Chars(<<0, 9, 4, 6, 6, 8, 4, 8, 0, 0>>)) }

InitStored ==
  /\ arg \in StoredValues
  /\ text = <<>>
  /\ now = Clock0
  /\ lastIndex = 0
  /\ ret = None
  /\ firstScan = None
  /\ settings \in StoredSettings
  /\ firstConvert = None
  /\ NoPage

NextStored ==
  \/ CallConvert

SpecStored == InitStored /\ [][NextStored]_vars

----------------------------------------------------------------------------
(* SpecStorage: chrome.storage.sync and two updateSettings calls.  Each     *)
(* call reads the settings object, awaits, and writes the object it has     *)
(* read with its updates spread over it (Storage.updateSettings, the        *)
(* service worker's updateSettings; the popup's updateSetting writes the    *)
(* object it has read when it opened).                                      *)

DEFAULT_SETTINGS == StoredSettingsWith("locale", "local", FALSE)

\* the updates of a call: one key and its new value
SettingsUpdates ==
  { [enabled |-> FALSE], [showBadgeCount |-> FALSE], [autoScan |-> FALSE],
    [displayMode |-> "inline"], [dateFormat |-> "iso"], [timezone |-> "UTC"] }

\* what is under the key before the calls: nothing, or an object
StoredBefore ==
  { <<>>, StoredSettingsWith("custom", "Asia/Kolkata", TRUE) }

\* a call of updateSettings(updates) that has not yet read
Call(updates) == [pc |-> "called", updates |-> updates, current |-> <<>>]

InitStorage ==
  /\ arg = StrVal(Instant)
  /\ text = <<>>
  /\ now = Clock0
  /\ lastIndex = 0
  /\ ret = None
  /\ firstScan = None
  /\ settings = <<>>
  /\ firstConvert = None
  /\ doc = <<>>
  /\ timestampCount = 0
  /\ observer = FALSE
  /\ records = <<>>
  /\ scanTimeout = Null
  /\ scanned = {}
  /\ badge = 0
  /\ pc = "none"
  /\ listening = FALSE
  /\ events = 0
  /\ stored \in StoredBefore
  /\ \E a \in SettingsUpdates, b \in SettingsUpdates :
       /\ DOMAIN a # DOMAIN b
       /\ calls = <<Call(a), Call(b)>>

\* const current = await this.getSettings()
getSettings ==
  /\ \E p \in 1..Len(calls) :
       /\ calls[p].pc = "called"
       /\ calls' = [calls EXCEPT ![p].pc = "read",
                                 ![p].current = Spread(DEFAULT_SETTINGS, stored)]
  /\ UNCHANGED callVars
  /\ UNCHANGED <<doc, timestampCount, observer, records, scanTimeout, scanned,
                 badge, pc, listening, stored, events>>

\* await this.saveSettings({ ...current, ...updates })
saveSettings ==
  /\ \E p \in 1..Len(calls) :
       /\ calls[p].pc = "read"
       /\ stored' = Spread(calls[p].current, calls[p].updates)
       /\ calls' = [calls EXCEPT ![p].pc = "returned"]
  /\ UNCHANGED callVars
  /\ UNCHANGED <<doc, timestampCount, observer, records, scanTimeout, scanned,
                 badge, pc, listening, events>>

NextStorage ==
  \/ getSettings
  \/ saveSettings

SpecStorage == InitStorage /\ [][NextStorage]_vars

----------------------------------------------------------------------------
(* SpecPageFair: SpecPage on an event loop that runs what is due: init()    *)
(* when the document is ready, the observer's callback as a microtask       *)
(* after the mutation, and the timer's handler scanDelay after it was set   *)
(* (unless cleared).  The page itself is under no obligation.               *)

\* the timer's handler can run: ENABLED <<ScanTimeoutFires>>_vars
TimerDue == scanTimeout.k = "timer" /\ records = <<>>

\* the timer's handler runs in this step: <<ScanTimeoutFires>>_vars
TimerFires == scanTimeout.k = "timer" /\ scanTimeout'.k = "null"

\* init() runs in this step: <<init>>_vars
Loads == pc = "loading" /\ pc' = "ready"

\* weak fairness of the observer's callback, of the timer's handler and of
\* init(); for the two handlers that scan, WF_vars(A) is written out as
\* []<>~ENABLED <<A>>_vars \/ []<><<A>>_vars on the guard of A
SpecPageFair ==
  /\ SpecPage
  /\ WF_vars(ObserverCallback)
  /\ []<>(~TimerDue) \/ []<><<TimerFires>>_vars
  /\ []<>(pc # "loading") \/ []<><<Loads>>_vars

----------------------------------------------------------------------------
(* C21..C30: the page, the settings and the badge *)

\* the .epochlens-timestamp elements of the document
RECURSIVE WrapperCount(_, _)
WrapperCount(nodes, i) ==
  IF i > Len(nodes) THEN 0
  ELSE nodes[i].wraps + WrapperCount(nodes, i + 1)

\* C21: once the script has loaded, timestampCount (what GET_PAGE_STATS
\* reports) is the number of wrapper elements in the document, after every
\* scanPage, scan of the observer's timer, cleanup, and removal of a wrapper
\* by the page.
C21_CountIsNumberOfWrappers ==
  pc = "ready" => timestampCount = WrapperCount(doc, 1)

\* a scan has wrapped a timestamp and counted it
C21_Witness ==
  /\ pc = "ready"
  /\ WrapperCount(doc, 1) > 0
  /\ timestampCount = WrapperCount(doc, 1)
\* cleanup() has run for settings whose enabled is false, and enabled has not
\* become true since: only the two handlers change the settings of a script
\* that has loaded enabled, and both then run cleanup()
DisabledAndCleaned == pc = "ready" /\ listening /\ ~settings.enabled

\* C22: once enabled is false and cleanup() has run, there is no wrapper in
\* the document and none is made until enabled is true again, whatever the
\* order of the handlers and of a scan timer that was pending at the cleanup.
C22_NoWrapperWhileDisabled ==
  DisabledAndCleaned => WrapperCount(doc, 1) = 0

\* cleanup() has taken the wrappers out while a scan timer was pending
C22_Witness ==
  /\ DisabledAndCleaned
  /\ ret.op \in {"onSettingsChange", "UPDATE_SETTINGS"}
  /\ ret.did = "cleanup"
  /\ WrapperCount(ret.before, 1) > 0
  /\ scanTimeout.k = "timer"
  /\ WrapperCount(doc, 1) = 0
\* formatDate's options for the dialect the settings object names
DialectOptions(set) ==
  [format |-> set.dateFormat, customFormat |-> set.customFormat,
   timezone |-> set.timezone]

\* C23: for a settings object whose dateFormat is "iso", "relative" or
\* "custom", the formatted text of the result of convert(timestamp, settings)
\* is the rendering of the instant in that dialect.
C23_FormattedInStoredDialect ==
  (ret.op = "convert" /\ ret.val.success
   /\ ret.options.dateFormat \in {"iso", "relative", "custom"})
    => ret.val.formatted = formatDate(toDate(arg), DialectOptions(ret.options)).value

\* convert has rendered a timestamp under settings whose dateFormat is "iso"
C23_Witness ==
  /\ ret.op = "convert"
  /\ ret.val.success
  /\ ret.options.dateFormat = "iso"
  /\ ret.options.timezone = "UTC"
\* the last event brought the script settings whose enabled is true
EnableDelivered ==
  /\ pc = "ready"
  /\ ret.op \in {"onSettingsChange", "UPDATE_SETTINGS"}
  /\ ret.settings.enabled

\* C24: on a page that was loaded while enabled was false, a change of enabled
\* to true, brought by chrome.storage.onChanged or by an UPDATE_SETTINGS
\* message, makes scanPage run (the handlers are synchronous: if the event
\* has not run it, nothing later will).
C24_EnablingScansWithoutReload ==
  (EnableDelivered /\ ~listening) => ret.did \in {"scanPage", "cleanup+scanPage"}

\* the page was loaded disabled, and the user has turned enabled on
C24_Witness ==
  /\ EnableDelivered
  /\ ~listening
  /\ stored.enabled
\* C25: no wrapper is inside another wrapper, and so each occurrence of a
\* timestamp has at most one wrapper around it, after every scanPage,
\* scanElement and processTextNode, a scan of a document that holds wrappers
\* and of a re-inserted element that holds wrappers included.
C25_WrappersAreNotNested ==
  \A i \in 1..Len(doc) : doc[i].wraps <= 1

\* the observer's timer has scanned a re-inserted element that held a wrapper
C25_Witness ==
  /\ ret.op = "scanTimeout"
  /\ \E i \in 1..Len(ret.before) :
       ret.before[i].wraps > 0 /\ ret.before[i].added = "element"
  /\ \E i \in 1..Len(doc) : doc[i].wraps > 0
\* C26: a text node whose parent element is one of SKIP_ELEMENTS is never
\* replaced by wrappers: not by scanPage, not by scanElement, and not by the
\* observer's timer handling a text node that was added into such an element.
C26_SkipElementsAreNeverWrapped ==
  \A i \in 1..Len(doc) :
    doc[i].tag \in SKIP_ELEMENTS => (doc[i].wraps = 0 /\ ~doc[i].piece)

\* the observer's timer has handled a text node with a timestamp that was
\* added into a skip element
C26_Witness ==
  /\ ret.op = "scanTimeout"
  /\ \E i \in 1..Len(ret.before) :
       /\ ret.before[i].tag \in SKIP_ELEMENTS
       /\ ret.before[i].added = "text"
       /\ ret.before[i].id \in scanned
       /\ findTimestamps(ret.before[i].nodeValue) # <<>>
\* updateBadge(count, tabId) of the service worker: the text of the badge for
\* the count of the last UPDATE_BADGE message (none has been sent: the tab's
\* badge is what chrome.tabs.onUpdated has set for count 0)
setBadgeText(count) ==
  IF count > 0 THEN (IF count > 99 THEN "99+" ELSE ToString(count)) ELSE ""

\* C27: while the settings of the content script have showBadgeCount = false
\* the text of the tab's badge is empty: it becomes empty when such settings
\* arrive and stays so until showBadgeCount is turned on again.
C27_BadgeEmptyWhileTurnedOff ==
  (pc = "ready" /\ ~settings.showBadgeCount) => setBadgeText(badge) = ""

\* settings with showBadgeCount = false have arrived at a script whose page
\* holds a timestamp
C27_Witness ==
  /\ pc = "ready"
  /\ listening
  /\ ret.op \in {"onSettingsChange", "UPDATE_SETTINGS"}
  /\ ~settings.showBadgeCount
  /\ \E i \in 1..Len(ret.before) : findTimestamps(ret.before[i].nodeValue) # <<>>
\* the updates of call p are in the stored object
IsStored(p) ==
  \A k \in DOMAIN calls[p].updates : stored[k] = calls[p].updates[k]

\* both calls have returned
BothReturned ==
  Len(calls) = 2 /\ \A p \in 1..2 : calls[p].pc = "returned"

\* C28: two updateSettings calls that change different keys leave both
\* changes in the stored settings, in whatever order their reads and writes
\* of chrome.storage.sync take place.
C28_BothUpdatesAreStored ==
  BothReturned => (IsStored(1) /\ IsStored(2))

\* both calls had read before either wrote, and both have returned
C28_Witness ==
  /\ BothReturned
  /\ calls[1].current = calls[2].current
\* the pending timer holds records of fragments only
OnlyFragmentRecords ==
  scanTimeout.k = "timer" /\ Range(scanTimeout.mutations) = {0}

\* no record is queued for the observer and no timer is pending
ObserverQuiet == records = <<>> /\ scanTimeout.k # "timer"

\* C29: the handling of the records that processTextNode's own insertions
\* have queued makes no wrapper and queues no record, and so, when the page
\* has stopped changing, the observer comes to rest after finitely many
\* timers and the wrappers stay as they are.
C29_ScansSettle ==
  /\ [][(TimerFires /\ OnlyFragmentRecords) => (doc' = doc /\ records' = <<>>)]_vars
  /\ <>[]ObserverQuiet

\* the timer for the records of a fragment has fired, and the observer rests
C29_Witness ==
  /\ ret.op = "scanTimeout"
  /\ ret.before = ret.after
  /\ WrapperCount(doc, 1) > 0
  /\ AddedIds(doc) # {}
  /\ AddedIds(doc) \subseteq scanned
  /\ ObserverQuiet
\* badge.textContent = result.formatted, for the wrapper of this text
badgeText(node) == <<convert(StrVal(node.nodeValue), <<>>).formatted>>

\* badges copies of the badge's text
RECURSIVE Badges(_, _)
Badges(node, n) == IF n = 0 THEN <<>> ELSE badgeText(node) \o Badges(node, n - 1)

\* textContent of the parent of the text node id, from the place i on: the
\* texts under it in document order, the text of a wrapper's badge after the
\* wrapped text
RECURSIVE textContent(_, _, _)
textContent(nodes, id, i) ==
  IF i > Len(nodes) THEN <<>>
  ELSE (IF nodes[i].id = id
        THEN nodes[i].nodeValue \o Badges(nodes[i], nodes[i].badges)
        ELSE <<>>)
       \o textContent(nodes, id, i + 1)

\* a handler has run cleanup() right after a scanPage of a document that held
\* no wrapper
CleanedAfterScan ==
  /\ ret.op \in {"onSettingsChange", "UPDATE_SETTINGS"}
  /\ ret.did = "cleanup"
  /\ ret.scan.op = "scanPage"
  /\ ret.scan.after = ret.before
  /\ WrapperCount(ret.scan.before, 1) = 0

\* C30: scanPage followed by cleanup leaves no wrapper in the document, and
\* the text content of every parent is what it was before the scan, in the
\* tooltip and in the inline display mode.
C30_CleanupUndoesScanPage ==
  CleanedAfterScan =>
    /\ WrapperCount(ret.after, 1) = 0
    /\ \A id \in NodeIds(ret.scan.before) :
         textContent(ret.after, id, 1) = textContent(ret.scan.before, id, 1)

\* cleanup has taken out a wrapper with an inline badge that stood after a
\* text, and the text content is as before the scan
C30_Witness ==
  /\ CleanedAfterScan
  /\ \E i \in 1..Len(ret.before) : ret.before[i].badges > 0
  /\ Len(ret.after) > Len(ret.scan.before)
  /\ \A id \in NodeIds(ret.scan.before) :
       textContent(ret.after, id, 1) = textContent(ret.scan.before, id, 1)

====
